---- MODULE Spec2Model ----
(***************************************************************************)
(* Model of netatmo.py: the token lifecycle of WeatherStation              *)
(* (auth, load_tokens, save_tokens, the access_token property) and the     *)
(* incremental CSV synchronisation (last_timestamp, dl_csv, fetch).        *)
(*                                                                         *)
(* Time is counted in ticks, Resolution ticks to the second, because       *)
(* time.time() is a float while save_tokens stores whole seconds.          *)
(***************************************************************************)
EXTENDS Integers, Sequences, FiniteSets, TLC

\* ------------------------------------------------------------------ bounds
Resolution == 2         \* ticks per second of the model's clock
MaxTime == 4            \* the clock stops at this tick
MaxSyncTime == 2        \* the same, while files are synchronised
MaxGrants == 2          \* token responses the server issues successfully
MaxExpiresIn == 2       \* largest expires_in (seconds) of a token response
FirstTs == 9            \* the measurement timestamps the server holds are
LastTs == 10            \*   FirstTs..LastTs
MaxPage == 2            \* measurements in one response body
MaxRows == 3            \* data records in one file
MaxRuns == 2            \* dl_csv calls on one file
FoldAt == 2             \* the second at which local clocks are set back
MaxShift == 1           \* by at most this many seconds

\* ------------------------------------------------------------ Python values
\* Python's None for a credential (a string field), for a token (tokens are
\* the positive numbers AT(k), RT(k)) and for the expiry (a tick count).
NoneStr == "<None>"
NoToken == 0
NoExpiry == 0 - 1

\* str(x) as save_credentials applies it: str(None) is the text "None".
Str(x) == IF x = NoneStr THEN "None" ELSE x

\* The credentials (client_id, client_secret, username, password) a caller
\* passes: all four set, or one of them None, or none set.
CredSets ==
    {<<"cred", "cred", "cred", "cred">>, <<NoneStr, "cred", "cred", "cred">>,
     <<"cred", NoneStr, "cred", "cred">>, <<"cred", "cred", NoneStr, "cred">>,
     <<"cred", "cred", "cred", NoneStr>>, <<NoneStr, NoneStr, NoneStr, NoneStr>>}
Configurations == {"dict", "rc"}

\* The k-th successful token response carries access token AT(k) and
\* refresh token RT(k).
AT(k) == 2 * k - 1
RT(k) == 2 * k

\* ------------------------------------------------------------------- state
VARIABLES
    ws,       \* the WeatherStation object: credentials, token triple, rc_file
    rc,       \* the rc file: its [netatmo] and [netatmo/tokens] sections
    now,      \* time.time(), in ticks
    issued,   \* number of successful token responses so far (server side)
    call,     \* the current or last read of access_token, as observed
    tz        \* the time zone of the processes: the seconds by which its
              \* local clocks are set back at FoldAt (0: they never are)

VARIABLES
    sinks,    \* the CSV files: whether each exists, its bytes, and the
              \* timestamps of the data records appended to it so far
    dl,       \* the dl_csv call in progress or just ended: its locals, the
              \* text its file object has not written out yet, what it sent
    runs,     \* number of dl_csv calls started
    honest    \* whether every measurement response so far honoured the
              \* date_begin of its request

VARIABLES
    run,      \* the fetch call in progress or just ended: its position, the
              \* station directory get_data stored, the stream it is at
    peer      \* a second process working on the same files: its
              \* WeatherStation and its dl_csv call

varsTok == <<ws, rc, now, issued, call, tz>>
varsSync == <<sinks, dl, runs, honest, run, peer>>
vars == <<ws, rc, now, issued, call, tz, sinks, dl, runs, honest, run, peer>>

NoSection == [present |-> FALSE]

\* The token triple of the object.
Triple(w) == <<w.access_token, w.refresh_token, w.expiration>>

\* ------------------------------------------------------------- CSV records
\* A file is a sequence of one-character strings.
Window == 100            \* last_timestamp reads at most this many bytes

DigitChars == <<"0", "1", "2", "3", "4", "5", "6", "7", "8", "9">>
IsDigit(c) == \E d \in 1..10 : DigitChars[d] = c
DigitValue(c) == (CHOOSE d \in 1..10 : DigitChars[d] = c) - 1

\* str(n) for a natural number: its decimal digits.
RECURSIVE Digits(_)
Digits(n) ==
    IF n < 10 THEN <<DigitChars[n + 1]>>
    ELSE Digits(n \div 10) \o <<DigitChars[(n % 10) + 1]>>

\* int(s) for a sequence of digits.
RECURSIVE ParseInt(_)
ParseInt(s) ==
    IF Len(s) = 0 THEN 0
    ELSE 10 * ParseInt(SubSeq(s, 1, Len(s) - 1)) + DigitValue(s[Len(s)])

\* str.isnumeric() on ASCII text: not empty and every character a digit.
IsNumeric(s) == Len(s) > 0 /\ \A i \in 1..Len(s) : IsDigit(s[i])

\* The header record written for the fields Temperature and Humidity.
HeaderRecord ==
    <<"\"", "T", "i", "m", "e", "s", "t", "a", "m", "p", "\"", ";",
    "\"", "D", "a", "t", "e", "T", "i", "m", "e", "\"", ";", "\"", "T",
    "e", "m", "p", "e", "r", "a", "t", "u", "r", "e", "\"", ";", "\"",
    "H", "u", "m", "i", "d", "i", "t", "y", "\"", "\n">>

\* datetime.fromtimestamp(t).strftime("%Y-%m-%d %H:%M:%S") quoted by the
\* writer, for t below one minute (UTC).
DateTimeField(t) ==
    <<"\"">> \o
    <<"1", "9", "7", "0", "-", "0", "1", "-", "0", "1", " ", "0", "0",
    ":", "0", "0", ":">>
    \o (IF t < 10 THEN <<"0">> ELSE <<>>) \o Digits(t) \o <<"\"">>

RECURSIVE Repeat(_, _)
Repeat(s, n) == IF n = 0 THEN <<>> ELSE s \o Repeat(s, n - 1)

\* The values of one measurement as the writer formats them. The server
\* decides how many there are: two (21.5 and 55), or twenty-five (each 450)
\* when wide, which makes a record longer than Window.
ValueFields(wide) ==
    IF wide THEN Repeat(<<";", "4", "5", "0">>, 25)
    ELSE <<";", "2", "1", ".", "5", ";", "5", "5">>

\* csv_writer.writerow([timestamp, datetime, *values]).
DataRecord(t, wide) ==
    Digits(t) \o <<";">> \o DateTimeField(t) \o ValueFields(wide) \o <<"\n">>

\* ----------------------------------------------------------- last_timestamp
\* The last element of readlines() on text: what follows the last newline
\* that is not the final character.
LastLine(text) ==
    LET breaks == {i \in 1..(Len(text) - 1) : text[i] = "\n"}
        from == IF breaks = {} THEN 1
                ELSE (CHOOSE i \in breaks : \A j \in breaks : j <= i) + 1
    IN SubSeq(text, from, Len(text))

\* last[0 : last.find(";")]: up to the first ';', or all but the last
\* character when there is none (find returns -1).
LeadingField(last) ==
    LET semis == {i \in 1..Len(last) : last[i] = ";"}
        stop == IF semis = {} THEN Len(last) - 1
                ELSE (CHOOSE i \in semis : \A j \in semis : i <= j) - 1
    IN SubSeq(last, 1, stop)

\* last_timestamp(filename): 0 for a missing or empty file, else the leading
\* field of the last line of the final Window bytes when it is numeric.
last_timestamp(file) ==
    IF ~file.exists THEN 0
    ELSE LET taille == IF Len(file.bytes) < Window THEN Len(file.bytes) ELSE Window
         IN IF taille = 0 THEN 0
            ELSE LET tail == SubSeq(file.bytes, Len(file.bytes) - taille + 1,
                                    Len(file.bytes))
                     timestamp == LeadingField(LastLine(tail))
                 IN IF IsNumeric(timestamp) THEN ParseInt(timestamp) ELSE 0

\* ------------------------------------------------------------ page ordering
\* Python's order on the keys of the body, which are strings: character by
\* character, a proper prefix first.
RECURSIVE StrLess(_, _)
StrLess(a, b) ==
    IF Len(b) = 0 THEN FALSE
    ELSE IF Len(a) = 0 THEN TRUE
    ELSE IF a[1] # b[1] THEN DigitValue(a[1]) < DigitValue(b[1])
    ELSE StrLess(Tail(a), Tail(b))

\* The key of a measurement in the JSON body.
Key(t) == Digits(t)

\* sorted(measures["body"].items()), as the sequence of int(timestamp).
RECURSIVE SortedItems(_)
SortedItems(page) ==
    IF page = {} THEN <<>>
    ELSE LET first == CHOOSE t \in page :
                          \A u \in page \ {t} : StrLess(Key(t), Key(u))
         IN <<ParseInt(Key(first))>> \o SortedItems(page \ {first})

\* ------------------------------------------------------------------ files
FileNames == {"netatmo_station.csv"}

NoFile == [exists |-> FALSE, bytes |-> <<>>, rows |-> <<>>]

\* date_begin of a request that carries none.
NoDateBegin == 0 - 1

\* No dl_csv call in progress. Of a call, dl holds the position (pc), the
\* locals csv_file, start, date_end and n, the text (buf) and data rows
\* (bufrows) its file object has not written out yet, the measurement
\* requests sent (reqs), the data rows the file held when it was opened
\* (rows0), the last response (resp) and the rows written for it (page), and
\* how the call ended (end). Two fields record what the server did, for the
\* properties that compare runs: whether every response of the call was the
\* whole of the remote data from the requested date on (faithful), and
\* whether the call follows one on the same file that ended at the date_end
\* test or at an empty page with such responses only (resumes).
IdleDl ==
    [pc |-> "idle", csv_file |-> "none", start |-> 0, date_end |-> 0,
     n |-> 0, buf |-> <<>>, bufrows |-> <<>>, reqs |-> <<>>,
     rows0 |-> <<>>, page |-> <<>>, end |-> "none",
     resp |-> [kind |-> "none", body |-> {}, wide |-> FALSE],
     faithful |-> TRUE, resumes |-> FALSE]

\* No fetch call in progress. Of a call, run holds the position (pc), the
\* station directory stored by get_data (devices), the number of dl_csv calls
\* made (k), the files as they were when the call started (sinks0), the
\* measurement requests of the streams that ended (reqs), how each of them
\* ended (ends) and the token the getstationsdata request carried
\* (data_token).
IdleFetch ==
    [pc |-> "idle", devices |-> <<>>, k |-> 0, sinks0 |-> <<>>, reqs |-> <<>>,
     ends |-> <<>>, data_token |-> [kind |-> "None", token |-> 0]]

\* No second process.
NoPeer == [pc |-> "none"]

\* ---------------------------------------------------------- WeatherStation
\* An auth that sets the four credentials and keeps the cached access token.
AuthKeepsToken(w, cid, sec, usr, pwd) ==
    [w EXCEPT !.client_id = cid, !.client_secret = sec,
              !.username = usr, !.password = pwd]

\* auth: sets the four credentials and drops the cached access token.
AuthOf(w, cid, sec, usr, pwd) ==
    [w EXCEPT !.client_id = cid, !.client_secret = sec,
              !.username = usr, !.password = pwd,
              !.access_token = NoToken]

\* load_credentials: reads the [netatmo] section; any failure falls back to
\* auth(None, None, None, None).
LoadCredentialsOf(w, file) ==
    IF ~w.rc_file THEN w
    ELSE IF file.account.present
         THEN AuthOf(w, file.account.client_id, file.account.client_secret,
                     file.account.username, file.account.password)
         ELSE AuthOf(w, NoneStr, NoneStr, NoneStr, NoneStr)

\* The zones a process may run in. Local time is UTC from FoldAt on and tz
\* seconds ahead of it before: at FoldAt the local clocks are set back by tz
\* seconds, as at the end of daylight saving time. NoShift is a zone whose
\* clocks are never set back.
NoShift == 0
Zones == NoShift..MaxShift

\* datetime.fromtimestamp(seconds): the local wall-clock time, in seconds.
LocalOf(seconds) == IF seconds < FoldAt THEN seconds + tz ELSE seconds

\* naive_datetime.timestamp(): the instant a local wall-clock time stands
\* for, the earlier one when the clocks showed that time twice (fold = 0).
TimestampOf(wall) == IF wall - tz < FoldAt THEN wall - tz ELSE wall

\* strptime(expiration, "%Y-%m-%dT%H:%M:%S").timestamp(): the stored local
\* time back to the clock's ticks.
ParseExpiration(wall) == TimestampOf(wall) * Resolution

\* load_tokens: reads the [netatmo/tokens] section; any failure sets the
\* access token to None.
LoadTokensOf(w, file) ==
    IF ~w.rc_file THEN w
    ELSE IF file.tokens.present
         THEN [w EXCEPT !.access_token = file.tokens.access_token,
                        !.refresh_token = file.tokens.refresh_token,
                        !.expiration = ParseExpiration(file.tokens.expiration)]
         ELSE [w EXCEPT !.access_token = NoToken]

\* datetime.fromtimestamp(int(expiration)).isoformat(): the expiry cut to
\* whole seconds, as local time.
FormatExpiration(ticks) == LocalOf(ticks \div Resolution)

\* The tokens section that holds the triple of w.
StoredTriple(w) ==
    [present |-> TRUE, access_token |-> w.access_token,
     refresh_token |-> w.refresh_token,
     expiration |-> FormatExpiration(w.expiration)]

\* save_tokens that writes nothing.
SaveTokensSkipped(w, file) == file

\* save_tokens that leaves a stored token of a later grant in place.
SaveTokensKeepsNewer(w, file) ==
    IF ~w.rc_file THEN file
    ELSE IF file.tokens.present /\ file.tokens.access_token > w.access_token
    THEN file
    ELSE [file EXCEPT !.tokens =
              [present |-> TRUE,
               access_token |-> w.access_token,
               refresh_token |-> w.refresh_token,
               expiration |-> FormatExpiration(w.expiration)]]

\* save_tokens: rewrites the rc file with the [netatmo/tokens] section
\* replaced by the object's triple; nothing without an rc file.
SaveTokensOf(w, file) ==
    IF ~w.rc_file THEN file
    ELSE [file EXCEPT !.tokens =
              [present |-> TRUE,
               access_token |-> w.access_token,
               refresh_token |-> w.refresh_token,
               expiration |-> FormatExpiration(w.expiration)]]

\* The [netatmo] section save_credentials writes for w: str() of each
\* credential.
StoredAccount(w) ==
    [present |-> TRUE, client_id |-> Str(w.client_id),
     client_secret |-> Str(w.client_secret), username |-> Str(w.username),
     password |-> Str(w.password)]

\* save_credentials that leaves the [netatmo/tokens] section in the file.
SaveCredentialsKeepsTokens(w, file) ==
    IF ~w.rc_file THEN file
    ELSE [file EXCEPT !.account = StoredAccount(w)]

\* save_credentials: rewrites the rc file with the [netatmo] section set
\* from str() of the credentials and the [netatmo/tokens] section removed.
SaveCredentialsOf(w, file) ==
    IF ~w.rc_file THEN file
    ELSE [account |-> [present |-> TRUE,
                       client_id |-> Str(w.client_id),
                       client_secret |-> Str(w.client_secret),
                       username |-> Str(w.username),
                       password |-> Str(w.password)],
          tokens |-> NoSection]

\* __init__: an object with no credentials and no token; a dict
\* configuration sets the credentials, an rc file is loaded.
NewStation(configuration, cid, sec, usr, pwd, file) ==
    LET blank == [client_id |-> NoneStr, client_secret |-> NoneStr,
                  username |-> NoneStr, password |-> NoneStr,
                  access_token |-> NoToken, refresh_token |-> NoToken,
                  expiration |-> NoExpiry, rc_file |-> FALSE]
    IN IF configuration = "dict"
       THEN AuthOf(blank, cid, sec, usr, pwd)
       ELSE LoadTokensOf(LoadCredentialsOf([blank EXCEPT !.rc_file = TRUE], file),
                         file)

\* ------------------------------------------------- the access_token property
\* Branch with the expiry test one tick early: a token that is still valid
\* is refreshed.
BranchRefreshesEarly(w, t) ==
    IF w.client_id = NoneStr \/ w.client_secret = NoneStr THEN "no_client"
    ELSE IF w.access_token = NoToken
         THEN IF w.username = NoneStr \/ w.password = NoneStr
              THEN "no_user" ELSE "password"
         ELSE IF w.expiration = NoExpiry THEN "no_expiry"
         ELSE IF w.expiration <= t + 1 THEN "refresh" ELSE "valid"

\* Branch with the expiry test strict: a token expiring now counts as valid.
BranchStrictExpiry(w, t) ==
    IF w.client_id = NoneStr \/ w.client_secret = NoneStr THEN "no_client"
    ELSE IF w.access_token = NoToken
         THEN IF w.username = NoneStr \/ w.password = NoneStr
              THEN "no_user" ELSE "password"
         ELSE IF w.expiration = NoExpiry THEN "no_expiry"
         ELSE IF w.expiration < t THEN "refresh" ELSE "valid"

\* Branch without the check of the client credentials.
BranchNoClientCheck(w, t) ==
    IF w.access_token = NoToken
    THEN IF w.username = NoneStr \/ w.password = NoneStr
         THEN "no_user" ELSE "password"
    ELSE IF w.expiration = NoExpiry THEN "no_expiry"
    ELSE IF w.expiration <= t THEN "refresh" ELSE "valid"

\* Which branch a read of access_token takes, from the state at its entry.
\*   "no_client"   line 248: client id or secret is None, returns None
\*   "no_user"     line 254: no token cached, username or password is None
\*   "password"    line 257: no token cached, a password grant is requested
\*   "no_expiry"   line 279: a token is cached and the expiry is None, the
\*                 comparison of None with a float raises TypeError
\*   "refresh"     line 279: the cached token has expired
\*   "valid"       line 301: the cached token is returned
Branch(w, t) ==
    IF w.client_id = NoneStr \/ w.client_secret = NoneStr THEN "no_client"
    ELSE IF w.access_token = NoToken
         THEN IF w.username = NoneStr \/ w.password = NoneStr
              THEN "no_user" ELSE "password"
         ELSE IF w.expiration = NoExpiry THEN "no_expiry"
         ELSE IF w.expiration <= t THEN "refresh" ELSE "valid"

\* post_params of the token request of a branch.
TokenRequest(w, branch) ==
    IF branch = "password"
    THEN [grant_type |-> "password", client_id |-> w.client_id,
          client_secret |-> w.client_secret, username |-> w.username,
          password |-> w.password, refresh_token |-> NoToken]
    ELSE [grant_type |-> "refresh_token", client_id |-> w.client_id,
          client_secret |-> w.client_secret, username |-> NoneStr,
          password |-> NoneStr, refresh_token |-> w.refresh_token]

\* What a read returns: None, False or a token; or the exception that
\* leaves it, a KeyError (a token response that lacks a key) or a TypeError
\* (a cached token without expiry).
RetNone == [kind |-> "None", token |-> NoToken]
RetFalse == [kind |-> "False", token |-> NoToken]
RetKeyError == [kind |-> "KeyError", token |-> NoToken]
RetTypeError == [kind |-> "TypeError", token |-> NoToken]
RetToken(tok) == IF tok = NoToken THEN RetNone ELSE [kind |-> "token", token |-> tok]

\* The keys of a token response that lines 272-274 and 295-297 read, in the
\* order they read them.
TokenKeys == {"access_token", "refresh_token", "expires_in"}

\* The responses of the token endpoint: a success carrying the next token
\* pair, an object without error field that lacks one of the keys, a body
\* with an error field, or a JSON null.
TokenResponses ==
    [kind : {"ok"}, grant : {issued + 1}, expires_in : 1..MaxExpiresIn,
     lacks : {"none"}]
        \cup [kind : {"partial"}, grant : {issued + 1}, expires_in : {0},
              lacks : TokenKeys]
        \cup {[kind |-> "error", grant |-> 0, expires_in |-> 0,
               lacks |-> "none"],
              [kind |-> "null", grant |-> 0, expires_in |-> 0,
               lacks |-> "none"]}

\* No response.
NoResponse == [kind |-> "none", grant |-> 0, expires_in |-> 0, lacks |-> "none"]

\* Whether a response carries tokens the server has issued for it.
Issues(resp) == resp.kind \in {"ok", "partial"}

\* Lines 272-274 and 295-297 on a response that lacks a key: the fields
\* assigned before the KeyError keep their new values.
PartialOf(w, resp) ==
    IF resp.lacks = "access_token" THEN w
    ELSE IF resp.lacks = "refresh_token"
    THEN [w EXCEPT !.access_token = AT(resp.grant)]
    ELSE [w EXCEPT !.access_token = AT(resp.grant),
                   !.refresh_token = RT(resp.grant)]

\* A grant whose expiry is the time of the response, the lifetime left out.
GrantExpiresAtOnce(w, resp, t) ==
    [w EXCEPT !.access_token = AT(resp.grant),
              !.refresh_token = RT(resp.grant),
              !.expiration = t]

\* The object after a successful token response received at time t.
GrantOf(w, resp, t) ==
    [w EXCEPT !.access_token = AT(resp.grant),
              !.refresh_token = RT(resp.grant),
              !.expiration = resp.expires_in * Resolution + t]

\* The handling of a response that drops the cached token on an error.
HandleTokenResponseDropsToken(w, file, resp, t) ==
    IF resp.kind = "null"
    THEN [ws |-> w, rc |-> file, saves |-> 0, ret |-> RetFalse]
    ELSE IF resp.kind = "error"
    THEN [ws |-> [w EXCEPT !.access_token = NoToken], rc |-> file,
          saves |-> 0, ret |-> RetNone]
    ELSE IF resp.kind = "partial"
    THEN [ws |-> PartialOf(w, resp), rc |-> file, saves |-> 0,
          ret |-> RetKeyError]
    ELSE LET g == GrantOf(w, resp, t)
         IN [ws |-> g, rc |-> SaveTokensOf(g, file), saves |-> 1,
             ret |-> RetToken(g.access_token)]

\* Lines 266-276 and 289-298: the read after its token request got resp at
\* time t. A null body returns False and a body with an error field returns
\* None, both leaving everything as it was; a response that lacks a key
\* raises KeyError where the key is read; otherwise the triple is replaced,
\* save_tokens is called and the new access token is returned.
HandleTokenResponse(w, file, resp, t) ==
    IF resp.kind = "null"
    THEN [ws |-> w, rc |-> file, saves |-> 0, ret |-> RetFalse]
    ELSE IF resp.kind = "error"
    THEN [ws |-> w, rc |-> file, saves |-> 0, ret |-> RetNone]
    ELSE IF resp.kind = "partial"
    THEN [ws |-> PartialOf(w, resp), rc |-> file, saves |-> 0,
          ret |-> RetKeyError]
    ELSE LET g == GrantOf(w, resp, t)
         IN [ws |-> g, rc |-> SaveTokensOf(g, file), saves |-> 1,
             ret |-> RetToken(g.access_token)]

\* ------------------------------------------------------------ observation
\* call records the read of access_token in progress or just returned (it is
\* cleared when another operation on the object starts): the state at its
\* entry (ws0, rc0, t0), the branch taken, the token requests sent, the kind
\* of the response, the number of save_tokens calls made, the value
\* returned, and the response while it is on its way from the server (wire).
NoCall ==
    [state |-> "none", branch |-> "none", ws0 |-> NewStation("dict", NoneStr,
     NoneStr, NoneStr, NoneStr, [account |-> NoSection, tokens |-> NoSection]),
     rc0 |-> [account |-> NoSection, tokens |-> NoSection],
     t0 |-> 0, reqs |-> <<>>, resp |-> "none", saves |-> 0, ret |-> RetNone,
     wire |-> NoResponse]

Accounts ==
    {NoSection} \cup
    {[present |-> TRUE, client_id |-> "cred", client_secret |-> "cred",
      username |-> "cred", password |-> "cred"]}

\* ----------------------------------------------------------------- actions
InitTok ==
    /\ rc \in [account : Accounts, tokens : {NoSection}]
    /\ \E conf \in Configurations, c \in CredSets :
           ws = NewStation(conf, c[1], c[2], c[3], c[4], rc)
    /\ now = 0
    /\ issued = 0
    /\ call = NoCall
    /\ tz \in Zones
    /\ sinks = [f \in FileNames |-> NoFile]
    /\ dl = IdleDl
    /\ runs = 0
    /\ honest = TRUE
    /\ run = IdleFetch
    /\ peer = NoPeer

\* A read is in progress: its token request is with the server (waiting) or
\* the response is on its way back (answered).
Busy == call.state \in {"waiting", "answered"}

\* A new process constructs its WeatherStation (a new run on the same rc
\* file, or a station configured by a dict).
Construct ==
    /\ ~Busy
    /\ \E conf \in Configurations, c \in CredSets :
           ws' = NewStation(conf, c[1], c[2], c[3], c[4], rc)
    /\ call' = NoCall
    /\ UNCHANGED <<tz, rc, now, issued>>
    /\ UNCHANGED varsSync

Auth ==
    /\ ~Busy
    /\ \E c \in CredSets : ws' = AuthOf(ws, c[1], c[2], c[3], c[4])
    /\ call' = NoCall
    /\ UNCHANGED <<tz, rc, now, issued>>
    /\ UNCHANGED varsSync

LoadCredentials ==
    /\ ~Busy
    /\ ws' = LoadCredentialsOf(ws, rc)
    /\ call' = NoCall
    /\ UNCHANGED <<tz, rc, now, issued>>
    /\ UNCHANGED varsSync

SaveCredentials ==
    /\ ~Busy
    /\ rc' = SaveCredentialsOf(ws, rc)
    /\ call' = NoCall
    /\ UNCHANGED <<tz, ws, now, issued>>
    /\ UNCHANGED varsSync

LoadTokens ==
    /\ ~Busy
    /\ ws' = LoadTokensOf(ws, rc)
    /\ call' = NoCall
    /\ UNCHANGED <<tz, rc, now, issued>>
    /\ UNCHANGED varsSync

\* A read of access_token up to its return or, when a token request is
\* needed, up to the sending of that request.
AccessTokenCall ==
    /\ ~Busy
    /\ LET b == Branch(ws, now)
           entry == [NoCall EXCEPT !.branch = b, !.ws0 = ws, !.rc0 = rc,
                                   !.t0 = now]
       IN call' =
            CASE b \in {"no_client", "no_user"} ->
                     [entry EXCEPT !.state = "returned", !.ret = RetNone]
              [] b = "no_expiry" ->
                     [entry EXCEPT !.state = "returned", !.ret = RetTypeError]
              [] b = "valid" ->
                     [entry EXCEPT !.state = "returned",
                                   !.ret = RetToken(ws.access_token)]
              [] OTHER ->
                     [entry EXCEPT !.state = "waiting",
                                   !.reqs = <<TokenRequest(ws, b)>>]
    /\ UNCHANGED <<tz, ws, rc, now, issued>>
    /\ UNCHANGED varsSync

\* The rest of the read, from the response of the token endpoint on.
TokenReply ==
    /\ Busy
    /\ \E resp \in TokenResponses :
         /\ Issues(resp) => issued < MaxGrants
         /\ LET r == HandleTokenResponse(ws, rc, resp, now)
            IN /\ ws' = r.ws
               /\ rc' = r.rc
               /\ call' = [call EXCEPT !.state = "returned",
                                       !.resp = resp.kind,
                                       !.saves = @ + r.saves,
                                       !.ret = r.ret]
         /\ issued' = IF Issues(resp) THEN issued + 1 ELSE issued
    /\ UNCHANGED <<tz, now>>
    /\ UNCHANGED varsSync

Tick ==
    /\ now < MaxTime
    /\ now' = now + 1
    /\ UNCHANGED <<tz, ws, rc, issued, call>>
    /\ UNCHANGED varsSync

NextTok ==
    \/ Construct
    \/ Auth
    \/ LoadCredentials
    \/ SaveCredentials
    \/ LoadTokens
    \/ AccessTokenCall
    \/ TokenReply
    \/ Tick

Spec == InitTok /\ [][NextTok]_vars

\* ------------------------------------------------------------------ dl_csv
\* Lines 478-480: the cursor a call starts from.
StartOf(file) ==
    LET start == last_timestamp(file)
    IN IF start > 0 THEN start + 1 ELSE start

\* A file opened for writing: what it held is gone.
OpenTruncates(file) == [exists |-> TRUE, bytes |-> <<>>, rows |-> <<>>]

\* Line 482, open(csv_file, "a"): the file is created when it does not
\* exist, and keeps what it holds.
OpenAppend(file) == [file EXCEPT !.exists = TRUE]

\* A header record written at every open.
HeaderAlways(file) == HeaderRecord

\* Lines 491-493: the header record is written when the file opened for
\* appending is empty.
HeaderOf(file) == IF Len(file.bytes) = 0 THEN HeaderRecord ELSE <<>>

\* Lines 425-451: post_params of get_measure as dl_csv calls it; a date_begin
\* of 0 is not sent.
MeasureRequest(token, start) ==
    [access_token |-> token, scale |-> "max",
     date_begin |-> IF start # 0 THEN start ELSE NoDateBegin]

\* The bodies of a measurement response: any measurements the server holds,
\* whatever date_begin asked for.
Timestamps == FirstTs..LastTs
Bodies == {b \in SUBSET Timestamps : Cardinality(b) <= MaxPage}

RECURSIVE Records(_, _)
Records(ts, wide) ==
    IF Len(ts) = 0 THEN <<>>
    ELSE DataRecord(Head(ts), wide) \o Records(Tail(ts), wide)

\* A body honours its request when it holds no measurement older than the
\* request's date_begin.
Honours(body, req) == \A t \in body : t >= req.date_begin

\* The measurements the station holds from the date a request names on: the
\* station's data are the measurements of Timestamps throughout.
Remote(req) == {t \in Timestamps : t >= req.date_begin}

\* dl_csv returned through the date_end test or the empty page (lines 511,
\* 527), every response having been the whole of the remote data.
EndedWell(d) == d.end \in {"exhausted", "reached"} /\ d.faithful

\* The cursor set to the timestamp of the row, also when it is behind.
AdvanceToRow(start, timestamp) == timestamp

\* Lines 522-523: the cursor after a row was written.
Advance(start, timestamp) == IF start < timestamp THEN timestamp ELSE start

\* The cursor after the rows ts were written in turn.
RECURSIVE MaxFrom(_, _)
MaxFrom(start, ts) ==
    IF Len(ts) = 0 THEN start
    ELSE MaxFrom(Advance(start, Head(ts)), Tail(ts))

\* The cursor of the next iteration left where it is.
NextCursorStalls(start) == start

\* Line 528: the cursor of the next iteration.
NextCursor(start) == start + 1

\* The test of the target that lets a cursor equal to it go on.
ReachedStrictly(start, date_end) == start > date_end

\* Line 525: the test that ends the loop after a page.
Reached(start, date_end) == start >= date_end

\* Lines 511-523: the rows of one body, in the order sorted() gives.
PageRows(body) == SortedItems(body)

\* Line 530 (and the file object's finalizer when the call raises): the text
\* not yet written out reaches the file.
CloseOf(file, d) ==
    [exists |-> TRUE, bytes |-> file.bytes \o d.buf,
     rows |-> file.rows \o d.bufrows]

\* dl_csv after get_measure returned None (no token, or a JSON null as the
\* measurement response): "status" not in None raises TypeError, which
\* dl_csv does not catch. The TypeError of a token read leaves it likewise.
RaiseOf(d) == [d EXCEPT !.pc = "closing", !.end = "raised"]

\* dl_csv left by the KeyError of a token read.
KeyErrorOf(d) == [d EXCEPT !.pc = "closing", !.end = "keyerror"]

\* A response without status "ok" handled as an error that leaves dl_csv.
StatusRaises(d) == [d EXCEPT !.pc = "closing", !.end = "raised", !.page = <<>>]

\* Lines 504-506: a response without status "ok" breaks out of the loop.
StatusBreak(d) == [d EXCEPT !.pc = "closing", !.end = "status", !.page = <<>>]

\* HandleMeasures without the break on an empty body: the loop goes on.
HandleMeasuresNoBreakOnEmpty(d, kind, body, wide) ==
    IF kind = "null" THEN RaiseOf(d)
    ELSE IF kind = "bad" THEN StatusBreak(d)
    ELSE LET rows == PageRows(body)
             start == MaxFrom(d.start, rows)
             written == [d EXCEPT !.buf = @ \o Records(rows, wide),
                                  !.bufrows = @ \o rows,
                                  !.page = rows]
         IN IF Reached(start, d.date_end)
            THEN [written EXCEPT !.pc = "closing", !.start = start,
                                 !.end = "reached"]
            ELSE [written EXCEPT !.pc = "loop", !.start = NextCursor(start)]

\* Lines 504-528: dl_csv from a measurement response on. kind is "null" for
\* a JSON null, "bad" for an object without status "ok", else "ok" with its
\* body, whose value lists are wide or not.
HandleMeasures(d, kind, body, wide) ==
    IF kind = "null" THEN RaiseOf(d)
    ELSE IF kind = "bad" THEN StatusBreak(d)
    ELSE IF body = {}
    THEN [d EXCEPT !.pc = "closing", !.end = "exhausted", !.page = <<>>]
    ELSE LET rows == PageRows(body)
             start == MaxFrom(d.start, rows)
             written == [d EXCEPT !.buf = @ \o Records(rows, wide),
                                  !.bufrows = @ \o rows,
                                  !.page = rows]
         IN IF Reached(start, d.date_end)
            THEN [written EXCEPT !.pc = "closing", !.start = start,
                                 !.end = "reached"]
            ELSE [written EXCEPT !.pc = "loop", !.start = NextCursor(start)]

\* dl_csv after the token read of get_measure returned ret or raised: the
\* request is sent unless ret is None.
AfterToken(d, ret) ==
    IF ret.kind \in {"None", "TypeError"} THEN RaiseOf(d)
    ELSE IF ret.kind = "KeyError" THEN KeyErrorOf(d)
    ELSE [d EXCEPT !.pc = "measure_wait",
                   !.reqs = Append(@, MeasureRequest(ret, d.start))]

\* The dl record with the file closed.
Closed(d) == [d EXCEPT !.pc = "idle", !.buf = <<>>, !.bufrows = <<>>]

\* What the ending of a step leaves: a call that ended closes its file.
Settle(d) ==
    IF d.pc = "closing"
    THEN /\ dl' = Closed(d)
         /\ sinks' = [sinks EXCEPT ![d.csv_file] = CloseOf(@, d)]
    ELSE /\ dl' = d
         /\ UNCHANGED sinks

\* ------------------------------------------------------------ sync actions
InitSync ==
    /\ rc = [account |-> [present |-> TRUE, client_id |-> "cred",
                          client_secret |-> "cred", username |-> "cred",
                          password |-> "cred"],
             tokens |-> NoSection]
    /\ \E conf \in Configurations :
           ws = NewStation(conf, "cred", "cred", "cred", "cred", rc)
    /\ now = 0
    /\ issued = 0
    /\ call = NoCall
    /\ tz = NoShift
    /\ sinks = [f \in FileNames |-> NoFile]
    /\ dl = IdleDl
    /\ runs = 0
    /\ honest = TRUE
    /\ run = IdleFetch
    /\ peer = NoPeer

\* dl_csv up to its loop (lines 478-495): the cursor is read from the file,
\* the file is opened for appending and gets its header when empty.
DlCsvOpen ==
    /\ dl.pc = "idle"
    /\ runs < MaxRuns
    /\ \E f \in FileNames, target \in FirstTs..(LastTs + 1) :
         /\ dl' = [IdleDl EXCEPT !.pc = "loop", !.csv_file = f,
                                 !.start = StartOf(sinks[f]),
                                 !.date_end = target,
                                 !.buf = HeaderOf(sinks[f]),
                                 !.rows0 = sinks[f].rows,
                                 !.resumes = (dl.csv_file = f /\ EndedWell(dl))]
         /\ sinks' = [sinks EXCEPT ![f] = OpenAppend(@)]
    /\ runs' = runs + 1
    /\ call' = NoCall
    /\ UNCHANGED <<tz, ws, rc, now, issued, honest, run, peer>>

\* One iteration of the loop up to its first network request (lines 497-502,
\* 422-451, 243-265): the token is read and, unless a token request has to
\* be answered first, the measurement request is sent.
GetMeasure ==
    /\ dl.pc = "loop"
    /\ LET b == Branch(ws, now)
           entry == [NoCall EXCEPT !.branch = b, !.ws0 = ws, !.rc0 = rc,
                                   !.t0 = now]
           d == [dl EXCEPT !.n = @ + 1]
       IN CASE b \in {"no_client", "no_user"} ->
                  /\ call' = [entry EXCEPT !.state = "returned", !.ret = RetNone]
                  /\ Settle(AfterToken(d, RetNone))
            [] b = "no_expiry" ->
                  /\ call' = [entry EXCEPT !.state = "returned",
                                           !.ret = RetTypeError]
                  /\ Settle(AfterToken(d, RetTypeError))
            [] b = "valid" ->
                  /\ call' = [entry EXCEPT !.state = "returned",
                                           !.ret = RetToken(ws.access_token)]
                  /\ Settle(AfterToken(d, RetToken(ws.access_token)))
            [] OTHER ->
                  /\ call' = [entry EXCEPT !.state = "waiting",
                                           !.reqs = <<TokenRequest(ws, b)>>]
                  /\ dl' = [d EXCEPT !.pc = "token_wait"]
                  /\ UNCHANGED sinks
    /\ UNCHANGED <<tz, ws, rc, now, issued, runs, honest, run, peer>>

\* A token response after which the loop starts over from cursor 0.
TokenReplySyncRewinds ==
    /\ dl.pc = "token_wait"
    /\ \E resp \in TokenResponses :
         /\ Issues(resp) => issued < MaxGrants
         /\ LET r == HandleTokenResponse(ws, rc, resp, now)
            IN /\ ws' = r.ws
               /\ rc' = r.rc
               /\ call' = [call EXCEPT !.state = "returned",
                                       !.resp = resp.kind,
                                       !.saves = @ + r.saves,
                                       !.ret = r.ret]
               /\ Settle(AfterToken([dl EXCEPT !.start = 0], r.ret))
         /\ issued' = IF Issues(resp) THEN issued + 1 ELSE issued
    /\ UNCHANGED <<tz, now, runs, honest, run, peer>>

\* The token response arrives (lines 265-304), then get_measure goes on to
\* its measurement request (lines 423-451).
TokenReplySync ==
    /\ dl.pc = "token_wait"
    /\ \E resp \in TokenResponses :
         /\ Issues(resp) => issued < MaxGrants
         /\ LET r == HandleTokenResponse(ws, rc, resp, now)
            IN /\ ws' = r.ws
               /\ rc' = r.rc
               /\ call' = [call EXCEPT !.state = "returned",
                                       !.resp = resp.kind,
                                       !.saves = @ + r.saves,
                                       !.ret = r.ret]
               /\ Settle(AfterToken(dl, r.ret))
         /\ issued' = IF Issues(resp) THEN issued + 1 ELSE issued
    /\ UNCHANGED <<tz, now, runs, honest, run, peer>>

\* The measurement response arrives and the iteration ends (lines 504-530).
MeasureReplyFrom(bodies, wides, most) ==
    /\ dl.pc = "measure_wait"
    /\ \E kind \in {"ok", "bad", "null"}, body \in bodies, wide \in wides :
         /\ (kind # "ok" \/ body = {}) => (body = {} /\ ~wide)
         /\ Len(sinks[dl.csv_file].rows) + Len(dl.bufrows) + Cardinality(body)
                <= most
         /\ Settle(HandleMeasures(
                [dl EXCEPT !.resp = [kind |-> kind, body |-> body,
                                     wide |-> wide],
                           !.faithful = (@ /\ kind = "ok"
                                           /\ body = Remote(dl.reqs[Len(dl.reqs)]))],
                kind, body, wide))
         /\ honest' = (honest /\ Honours(body, dl.reqs[Len(dl.reqs)]))
    /\ UNCHANGED <<tz, ws, rc, now, issued, call, runs, run, peer>>

MeasureReply == MeasureReplyFrom(Bodies, BOOLEAN, MaxRows)

\* Time passes. The clock is read at the start of an iteration and when a
\* token response arrives, so it is enough to let it advance before each.
TickSync ==
    /\ dl.pc \in {"loop", "token_wait"}
    /\ now < MaxSyncTime
    /\ now' = now + 1
    /\ UNCHANGED <<tz, ws, rc, issued, call, sinks, dl, runs, honest, run, peer>>

\* The process is terminated while dl_csv runs (line 482: the file object
\* has the default buffer of io.DEFAULT_BUFFER_SIZE = 8192 bytes, which the
\* rows of the model never fill): the text not yet written out is lost and
\* the file stays as it is on disk.
Kill ==
    /\ dl.pc \in {"loop", "token_wait", "measure_wait"}
    /\ dl' = [Closed(dl) EXCEPT !.end = "killed"]
    /\ call' = NoCall
    /\ UNCHANGED <<tz, ws, rc, now, issued, sinks, runs, honest, run, peer>>

NextSync ==
    \/ DlCsvOpen
    \/ GetMeasure
    \/ TokenReplySync
    \/ MeasureReply
    \/ TickSync
    \/ Kill

SpecSync == InitSync /\ [][NextSync]_vars

\* The same with every request answered and every running call continued.
SpecSyncFair ==
    /\ SpecSync
    /\ WF_vars(GetMeasure)
    /\ WF_vars(TokenReplySync)
    /\ WF_vars(MeasureReply)

\* ------------------------------------------------- files cut short
\* A file whose last record was cut at some byte: the header, the record of
\* FirstTs, and the first n bytes of the record of LastTs.
CutFile(n) ==
    [exists |-> TRUE,
     bytes |-> HeaderRecord \o DataRecord(FirstTs, FALSE)
                   \o SubSeq(DataRecord(LastTs, FALSE), 1, n),
     rows |-> IF n = Len(DataRecord(LastTs, FALSE)) THEN <<FirstTs, LastTs>>
              ELSE <<FirstTs>>]

\* The files last_timestamp is applied to first: none, an empty one, and the
\* cut ones.
CutFiles ==
    {NoFile, [NoFile EXCEPT !.exists = TRUE]}
        \cup {CutFile(n) : n \in 0..Len(DataRecord(LastTs, FALSE))}

\* dl_csv calls on a file that an earlier, interrupted writer left behind.
InitCut ==
    /\ rc = [account |-> [present |-> TRUE, client_id |-> "cred",
                          client_secret |-> "cred", username |-> "cred",
                          password |-> "cred"],
             tokens |-> NoSection]
    /\ ws = NewStation("rc", NoneStr, NoneStr, NoneStr, NoneStr, rc)
    /\ now = 0
    /\ issued = 0
    /\ call = NoCall
    /\ tz = NoShift
    /\ sinks \in [FileNames -> CutFiles]
    /\ dl = IdleDl
    /\ runs = 0
    /\ honest = TRUE
    /\ run = IdleFetch
    /\ peer = NoPeer

SpecCut == InitCut /\ [][NextSync]_vars

\* --------------------------------------------------------------- fetch
FetchTs1 == 10          \* the measurement timestamps the server holds while
FetchTs2 == 20          \*   fetch runs are FetchTs1 and FetchTs2
TargetLow == 20         \* the time_utc values of the station directory
TargetHigh == 25
MaxModules == 1         \* modules of the station
MaxFetchRows == 2       \* data records in one file while fetch runs

\* The names of the measurement types, as text.
WordTemperature == <<"T", "e", "m", "p", "e", "r", "a", "t", "u", "r", "e">>
WordCO2 == <<"C", "O", "2">>
WordHumidity == <<"H", "u", "m", "i", "d", "i", "t", "y">>
WordNoise == <<"N", "o", "i", "s", "e">>
WordPressure == <<"P", "r", "e", "s", "s", "u", "r", "e">>

\* Lines 491-493 with QUOTE_NONNUMERIC: the header record for a list of
\* fields (a sequence of names, each a text).
RECURSIVE QuotedFields(_)
QuotedFields(fields) ==
    IF Len(fields) = 0 THEN <<>>
    ELSE <<";", "\"">> \o Head(fields) \o <<"\"">> \o QuotedFields(Tail(fields))

HeaderRecordOf(fields) ==
    SubSeq(HeaderRecord, 1, 22) \o QuotedFields(fields) \o <<"\n">>

\* Lines 552-597: the k-th dl_csv call of fetch writes to StreamFile(k) with
\* the fields StreamFields(k); its date_end is the time_utc of the station
\* (k = 1) or of module k - 1.
StreamFile(k) ==
    IF k = 1 THEN "netatmo_station.csv"
    ELSE IF k = 2 THEN "netatmo_module.csv"
    ELSE "netatmo_module_in_" \o ToString(k - 2) \o ".csv"

StreamFields(k) ==
    IF k = 1 THEN <<WordTemperature, WordCO2, WordHumidity, WordNoise,
                    WordPressure>>
    ELSE IF k = 2 THEN <<WordTemperature, WordHumidity>>
    ELSE <<WordTemperature, WordCO2, WordHumidity>>

StreamTarget(devices, k) ==
    IF k = 1 THEN devices.time_utc ELSE devices.modules[k - 1].time_utc

FetchFiles == {StreamFile(k) : k \in 1..(MaxModules + 1)}

\* The time_utc of a station or module that reports no dashboard_data, or
\* dashboard_data without time_utc.
NoDashboard == 0 - 1

\* The station directories get_data may store: a station with its time_utc
\* and up to MaxModules modules, each with its time_utc; any of them may
\* lack it.
Targets == {TargetLow, TargetHigh}
DirectoriesOf(targets, most) ==
    [time_utc : targets \cup {NoDashboard},
     modules : UNION {[1..n -> [time_utc : targets \cup {NoDashboard}]] :
                          n \in 0..most}]
Directories == DirectoriesOf(Targets, MaxModules)

\* The station and its first module only (src/netatmo.py, lines 477-499).
StreamsFirstModule(devices) == IF Len(devices.modules) = 0 THEN 1 ELSE 2

\* Number of dl_csv calls fetch makes for a directory (lines 553-597): one
\* for the station, one for module 0 and one for each module from 1 on.
Streams(devices) == 1 + Len(devices.modules)

\* Lines 478-495: the dl_csv call that has just opened file f (as it is on
\* disk) with date_end target and the header for its fields pending.
OpenOf(file, f, target, header) ==
    [IdleDl EXCEPT !.pc = "loop", !.csv_file = f,
                   !.start = StartOf(file),
                   !.date_end = target,
                   !.buf = IF Len(file.bytes) = 0 THEN header ELSE <<>>,
                   !.rows0 = file.rows]

\* The responses of getstationsdata: a body with the directory, a body with
\* an error field, or a JSON null.
StationsResponsesOf(directories) ==
    [kind : {"ok"}, devices : directories]
        \cup {[kind |-> "error", devices |-> <<>>],
              [kind |-> "null", devices |-> <<>>]}
StationsResponses == StationsResponsesOf(Directories)

\* fetch without its try ... except KeyError: it goes on only after a dl_csv
\* call that returned.
PassesNoKeyError(k, end) == end \in {"status", "exhausted", "reached"}

\* fetch goes on after its k-th dl_csv call ended so: the call returned, or
\* it was left by a KeyError and is one of the calls for the modules, which
\* are inside try ... except KeyError (lines 562-573 and 586-597).
Passes(k, end) ==
    \/ end \in {"status", "exhausted", "reached"}
    \/ end = "keyerror" /\ k > 1

\* The fetch call is over: it returned (get_data gave False, or the last
\* dl_csv call passed) or an exception left it (station["modules"][0]
\* without modules, an exception of the token read of get_data, or a dl_csv
\* call left by an exception that fetch does not catch).
FetchReturned ==
    \/ run.pc = "no_data"
    \/ /\ run.pc = "streams"
       /\ run.k = Streams(run.devices)
       /\ dl.pc = "idle"
       /\ Passes(run.k, dl.end)
FetchRaised ==
    \/ run.pc = "raised"
    \/ /\ run.pc = "streams"
       /\ run.k > 0
       /\ dl.pc = "idle"
       /\ ~Passes(run.k, dl.end)
FetchOver == FetchReturned \/ FetchRaised

InitFetch ==
    /\ rc = [account |-> [present |-> TRUE, client_id |-> "cred",
                          client_secret |-> "cred", username |-> "cred",
                          password |-> "cred"],
             tokens |-> NoSection]
    /\ ws = NewStation("rc", NoneStr, NoneStr, NoneStr, NoneStr, rc)
    /\ now = 0
    /\ issued = 0
    /\ call = NoCall
    /\ tz = NoShift
    /\ sinks = [f \in FetchFiles |-> NoFile]
    /\ dl = IdleDl
    /\ runs = 0
    /\ honest = TRUE
    /\ run = IdleFetch
    /\ peer = NoPeer

\* get_data after its token read returned ret or raised (lines 310-320):
\* False is returned for None, else the getstationsdata request is sent.
AfterDataToken(r, ret) ==
    IF ret.kind = "None" THEN [r EXCEPT !.pc = "no_data"]
    ELSE IF ret.kind \in {"KeyError", "TypeError"} THEN [r EXCEPT !.pc = "raised"]
    ELSE [r EXCEPT !.pc = "data_wait", !.data_token = ret]

\* fetch that goes on to the station's stream also when the station has no
\* module.
AfterStationsWithoutModule(r, resp) ==
    IF resp.kind # "ok" THEN [r EXCEPT !.pc = "no_data"]
    ELSE [r EXCEPT !.pc = "streams", !.devices = resp.devices]

\* get_data from its response on and fetch up to its first dl_csv call
\* (lines 320-335, 540-543): get_data gives False for a null body or an error
\* field and fetch returns; else the directory is stored, and
\* station["modules"][0] raises IndexError when the station has no module.
AfterStations(r, resp) ==
    IF resp.kind # "ok" THEN [r EXCEPT !.pc = "no_data"]
    ELSE IF Len(resp.devices.modules) = 0
    THEN [r EXCEPT !.pc = "raised", !.devices = resp.devices]
    ELSE [r EXCEPT !.pc = "streams", !.devices = resp.devices]

\* fetch, which a process calls once, up to its first network request (lines
\* 539-540, 113-137, 310-312, 243-265): the station is constructed and
\* get_data reads the token.
FetchStart ==
    /\ run.pc = "idle"
    /\ \E conf \in Configurations, c \in CredSets :
         LET w == NewStation(conf, c[1], c[2], c[3], c[4], rc)
             b == Branch(w, now)
             entry == [NoCall EXCEPT !.branch = b, !.ws0 = w, !.rc0 = rc,
                                     !.t0 = now]
             r == [IdleFetch EXCEPT !.pc = "start", !.sinks0 = sinks]
         IN /\ ws' = w
            /\ CASE b \in {"no_client", "no_user"} ->
                      /\ call' = [entry EXCEPT !.state = "returned",
                                               !.ret = RetNone]
                      /\ run' = AfterDataToken(r, RetNone)
                 [] b = "no_expiry" ->
                      /\ call' = [entry EXCEPT !.state = "returned",
                                               !.ret = RetTypeError]
                      /\ run' = AfterDataToken(r, RetTypeError)
                 [] b = "valid" ->
                      /\ call' = [entry EXCEPT !.state = "returned",
                                      !.ret = RetToken(w.access_token)]
                      /\ run' = AfterDataToken(r, RetToken(w.access_token))
                 [] OTHER ->
                      /\ call' = [entry EXCEPT !.state = "waiting",
                                      !.reqs = <<TokenRequest(w, b)>>]
                      /\ run' = [r EXCEPT !.pc = "token_wait"]
    /\ runs' = runs + 1
    /\ dl' = IdleDl
    /\ UNCHANGED <<tz, rc, now, issued, sinks, honest, peer>>

\* The token response of get_data arrives (lines 265-304, 311-320).
FetchTokenReply ==
    /\ run.pc = "token_wait"
    /\ \E resp \in TokenResponses :
         /\ Issues(resp) => issued < MaxGrants
         /\ LET r == HandleTokenResponse(ws, rc, resp, now)
            IN /\ ws' = r.ws
               /\ rc' = r.rc
               /\ call' = [call EXCEPT !.state = "returned",
                                       !.resp = resp.kind,
                                       !.saves = @ + r.saves,
                                       !.ret = r.ret]
               /\ run' = AfterDataToken(run, r.ret)
         /\ issued' = IF Issues(resp) THEN issued + 1 ELSE issued
    /\ UNCHANGED <<tz, now, sinks, dl, runs, honest, peer>>

\* The getstationsdata response arrives (lines 320-335, 540-543): get_data
\* gives False for a null body or an error field; else the directory is
\* stored and fetch takes the station and its first module.
FetchStationsReplyFrom(responses) ==
    /\ run.pc = "data_wait"
    /\ \E resp \in responses : run' = AfterStations(run, resp)
    /\ UNCHANGED <<tz, ws, rc, now, issued, call, sinks, dl, runs, honest, peer>>

FetchStationsReply == FetchStationsReplyFrom(StationsResponses)

\* fetch calls dl_csv for its next stream (lines 553-597), which runs up to
\* its loop (lines 478-495). The arguments are evaluated first: without
\* dashboard_data or time_utc the subscript raises KeyError and dl_csv is not
\* called.
NextStreamDue ==
    /\ run.pc = "streams"
    /\ dl.pc = "idle"
    /\ run.k < Streams(run.devices)
    /\ run.k > 0 => Passes(run.k, dl.end)

FetchDlCsv ==
    /\ NextStreamDue
    /\ LET k == run.k + 1
           f == StreamFile(k)
       IN /\ IF StreamTarget(run.devices, k) = NoDashboard
             THEN /\ dl' = [IdleDl EXCEPT !.end = "keyerror"]
                  /\ UNCHANGED sinks
             ELSE /\ dl' = OpenOf(sinks[f], f, StreamTarget(run.devices, k),
                                  HeaderRecordOf(StreamFields(k)))
                  /\ sinks' = [sinks EXCEPT ![f] = OpenAppend(@)]
          /\ run' = [run EXCEPT !.k = k, !.reqs = @ \o dl.reqs,
                                !.ends = IF run.k > 0 THEN Append(@, dl.end)
                                         ELSE @]
    /\ call' = NoCall
    /\ UNCHANGED <<tz, ws, rc, now, issued, runs, honest, peer>>

\* The measurement response arrives while fetch runs: the server holds the
\* measurements FetchTs1 and FetchTs2.
FetchMeasureReply ==
    MeasureReplyFrom(SUBSET {FetchTs1, FetchTs2}, {FALSE}, MaxFetchRows)

NextFetch ==
    \/ FetchStart
    \/ FetchTokenReply
    \/ FetchStationsReply
    \/ FetchDlCsv
    \/ GetMeasure
    \/ TokenReplySync
    \/ FetchMeasureReply
    \/ TickSync

SpecFetch == InitFetch /\ [][NextFetch]_vars

\* -------------------------------------------------- fetch, several modules
MaxStreamModules == 2   \* modules of the station when its streams are followed

StreamFiles == {StreamFile(k) : k \in 1..(MaxStreamModules + 1)}

\* One fetch call for a station with up to MaxStreamModules modules, whose
\* time_utc values are all TargetLow.
InitStreams ==
    /\ rc = [account |-> [present |-> TRUE, client_id |-> "cred",
                          client_secret |-> "cred", username |-> "cred",
                          password |-> "cred"],
             tokens |-> NoSection]
    /\ ws = NewStation("rc", NoneStr, NoneStr, NoneStr, NoneStr, rc)
    /\ now = 0
    /\ issued = 0
    /\ call = NoCall
    /\ tz = NoShift
    /\ sinks = [f \in StreamFiles |-> NoFile]
    /\ dl = IdleDl
    /\ runs = 0
    /\ honest = TRUE
    /\ run = IdleFetch
    /\ peer = NoPeer

StreamsStationsReply ==
    FetchStationsReplyFrom(
        StationsResponsesOf(DirectoriesOf({TargetLow}, MaxStreamModules)))

NextStreams ==
    \/ FetchStart
    \/ FetchTokenReply
    \/ StreamsStationsReply
    \/ FetchDlCsv
    \/ GetMeasure
    \/ TokenReplySync
    \/ FetchMeasureReply
    \/ TickSync

SpecStreams == InitStreams /\ [][NextStreams]_vars

\* ------------------------------------------------- two processes
MaxPeerRuns == 1        \* dl_csv calls of the second process

\* A file with a lock: it cannot be opened while another call has it open.
MayOpenExclusive(f, other) == other.pc = "idle" \/ other.csv_file # f

\* Line 482: open(csv_file, "a") succeeds whatever other call, described by
\* its dl record, has the file open; nothing in dl_csv takes a lock.
MayOpen(f, other) == TRUE

\* The file an earlier dl_csv call left: the header and the record of FirstTs.
StoredFile ==
    [exists |-> TRUE, bytes |-> HeaderRecord \o DataRecord(FirstTs, FALSE),
     rows |-> <<FirstTs>>]

\* Two processes, each with its own WeatherStation built from the same rc
\* file, call dl_csv on the same files, which one earlier call has filled.
InitRace ==
    /\ rc = [account |-> [present |-> TRUE, client_id |-> "cred",
                          client_secret |-> "cred", username |-> "cred",
                          password |-> "cred"],
             tokens |-> NoSection]
    /\ ws = NewStation("rc", NoneStr, NoneStr, NoneStr, NoneStr, rc)
    /\ now = 0
    /\ issued = 0
    /\ call = NoCall
    /\ tz = NoShift
    /\ sinks = [f \in FileNames |-> StoredFile]
    /\ dl = IdleDl
    /\ runs = 1
    /\ honest = TRUE
    /\ run = IdleFetch
    /\ peer = [pc |-> "ready",
               ws |-> NewStation("rc", NoneStr, NoneStr, NoneStr, NoneStr, rc),
               dl |-> IdleDl, runs |-> 0]

\* What the ending of a step of the second process leaves.
PeerSettle(w, d) ==
    IF d.pc = "closing"
    THEN /\ peer' = [peer EXCEPT !.ws = w, !.dl = Closed(d)]
         /\ sinks' = [sinks EXCEPT ![d.csv_file] = CloseOf(@, d)]
    ELSE /\ peer' = [peer EXCEPT !.ws = w, !.dl = d]
         /\ UNCHANGED sinks

\* The files the second process can open now.
PeerOpenable == {f \in FileNames : MayOpen(f, dl)}

\* dl_csv of the second process up to its loop (lines 478-495).
PeerDlCsvOpen ==
    /\ peer.dl.pc = "idle"
    /\ peer.runs < MaxPeerRuns
    /\ \E f \in PeerOpenable, target \in FirstTs..(LastTs + 1) :
         /\ peer' = [peer EXCEPT !.dl = OpenOf(sinks[f], f, target,
                                               HeaderRecord),
                                 !.runs = @ + 1]
         /\ sinks' = [sinks EXCEPT ![f] = OpenAppend(@)]
    /\ UNCHANGED <<tz, ws, rc, now, issued, call, dl, runs, honest, run>>

\* One iteration of its loop up to the first network request (lines
\* 497-502, 422-451, 243-265).
PeerGetMeasure ==
    /\ peer.dl.pc = "loop"
    /\ LET b == Branch(peer.ws, now)
           d == [peer.dl EXCEPT !.n = @ + 1]
       IN CASE b \in {"no_client", "no_user"} ->
                  PeerSettle(peer.ws, AfterToken(d, RetNone))
            [] b = "no_expiry" ->
                  PeerSettle(peer.ws, AfterToken(d, RetTypeError))
            [] b = "valid" ->
                  PeerSettle(peer.ws,
                             AfterToken(d, RetToken(peer.ws.access_token)))
            [] OTHER ->
                  /\ peer' = [peer EXCEPT !.dl = [d EXCEPT !.pc = "token_wait"]]
                  /\ UNCHANGED sinks
    /\ UNCHANGED <<tz, ws, rc, now, issued, call, dl, runs, honest, run>>

\* Its token response arrives (lines 265-304, 423-451).
PeerTokenReply ==
    /\ peer.dl.pc = "token_wait"
    /\ \E resp \in TokenResponses :
         /\ Issues(resp) => issued < MaxGrants
         /\ LET r == HandleTokenResponse(peer.ws, rc, resp, now)
            IN /\ rc' = r.rc
               /\ PeerSettle(r.ws, AfterToken(peer.dl, r.ret))
         /\ issued' = IF Issues(resp) THEN issued + 1 ELSE issued
    /\ UNCHANGED <<tz, ws, now, call, dl, runs, honest, run>>

\* Its measurement response arrives (lines 504-530).
PeerMeasureReply ==
    /\ peer.dl.pc = "measure_wait"
    /\ \E kind \in {"ok", "bad", "null"}, body \in Bodies :
         /\ kind # "ok" => body = {}
         /\ Len(sinks[peer.dl.csv_file].rows) + Len(dl.bufrows)
                + Len(peer.dl.bufrows) + Cardinality(body) <= MaxRows
         /\ PeerSettle(peer.ws, HandleMeasures(
                [peer.dl EXCEPT !.resp = [kind |-> kind, body |-> body,
                                          wide |-> FALSE]],
                kind, body, FALSE))
         /\ honest' = (honest /\ Honours(body, peer.dl.reqs[Len(peer.dl.reqs)]))
    /\ UNCHANGED <<tz, ws, rc, now, issued, call, dl, runs, run>>

\* The measurement response of the first process, while both run.
RaceMeasureReply ==
    /\ Len(peer.dl.bufrows) < MaxRows
    /\ MeasureReplyFrom(Bodies, {FALSE}, MaxRows - Len(peer.dl.bufrows))

NextRace ==
    \/ DlCsvOpen
    \/ GetMeasure
    \/ TokenReplySync
    \/ RaceMeasureReply
    \/ PeerDlCsvOpen
    \/ PeerGetMeasure
    \/ PeerTokenReply
    \/ PeerMeasureReply

SpecRace == InitRace /\ [][NextRace]_vars

\* ------------------------------------------------- two processes, one store
MaxStoreGrants == 3     \* token responses the server issues for the store

\* The tokens section an earlier run left: the triple of the first grant,
\* received at time 0.
StoredTokens ==
    {StoredTriple([access_token |-> AT(1), refresh_token |-> RT(1),
                   expiration |-> e * Resolution]) : e \in 1..MaxExpiresIn}

\* Two runs on the same rc file, which holds the credentials and the tokens
\* of an earlier run: the first has constructed its WeatherStation, the
\* second has not started yet.
InitStore ==
    /\ tz \in Zones
    /\ rc \in [account : {[present |-> TRUE, client_id |-> "cred",
                           client_secret |-> "cred", username |-> "cred",
                           password |-> "cred"]},
                tokens : StoredTokens]
    /\ ws = NewStation("rc", NoneStr, NoneStr, NoneStr, NoneStr, rc)
    /\ now = 0
    /\ issued = 1
    /\ call = NoCall
    /\ sinks = [f \in FileNames |-> NoFile]
    /\ dl = IdleDl
    /\ runs = 0
    /\ honest = TRUE
    /\ run = IdleFetch
    /\ peer = [pc |-> "ready", ws |-> ws, call |-> NoCall]

\* The token endpoint answers the request of the first process (line 101,
\* on the server's side): the response is on its way.
TokenIssue ==
    /\ call.state = "waiting"
    /\ \E resp \in TokenResponses :
         /\ Issues(resp) => issued < MaxStoreGrants
         /\ call' = [call EXCEPT !.state = "answered", !.wire = resp]
         /\ issued' = IF Issues(resp) THEN issued + 1 ELSE issued
    /\ UNCHANGED <<tz, ws, rc, now>>
    /\ UNCHANGED varsSync

\* The response reaches the first process, whose read goes on to its return
\* (lines 265-304).
TokenReceive ==
    /\ call.state = "answered"
    /\ LET r == HandleTokenResponse(ws, rc, call.wire, now)
       IN /\ ws' = r.ws
          /\ rc' = r.rc
          /\ call' = [call EXCEPT !.state = "returned",
                                  !.resp = call.wire.kind,
                                  !.saves = @ + r.saves,
                                  !.ret = r.ret,
                                  !.wire = NoResponse]
    /\ UNCHANGED <<tz, now, issued>>
    /\ UNCHANGED varsSync

\* The second process constructs its WeatherStation from the rc file as it
\* is now (lines 113-137).
PeerConstruct ==
    /\ peer.pc = "ready"
    /\ peer' = [peer EXCEPT !.pc = "tok",
                            !.ws = NewStation("rc", NoneStr, NoneStr, NoneStr,
                                              NoneStr, rc)]
    /\ UNCHANGED <<tz, ws, rc, now, issued, call, sinks, dl, runs, honest, run>>

\* The second process reads access_token, up to its return or to the
\* sending of its token request (lines 248-265, 279-288).
PeerAccessTokenCall ==
    /\ peer.pc = "tok"
    /\ peer.call.state \notin {"waiting", "answered"}
    /\ LET b == Branch(peer.ws, now)
           entry == [NoCall EXCEPT !.branch = b, !.ws0 = peer.ws, !.rc0 = rc,
                                   !.t0 = now]
       IN peer' = [peer EXCEPT !.call =
            CASE b \in {"no_client", "no_user"} ->
                     [entry EXCEPT !.state = "returned", !.ret = RetNone]
              [] b = "no_expiry" ->
                     [entry EXCEPT !.state = "returned", !.ret = RetTypeError]
              [] b = "valid" ->
                     [entry EXCEPT !.state = "returned",
                                   !.ret = RetToken(peer.ws.access_token)]
              [] OTHER ->
                     [entry EXCEPT !.state = "waiting",
                                   !.reqs = <<TokenRequest(peer.ws, b)>>]]
    /\ UNCHANGED <<tz, ws, rc, now, issued, call, sinks, dl, runs, honest, run>>

\* The token endpoint answers the request of the second process.
PeerTokenIssue ==
    /\ peer.pc = "tok"
    /\ peer.call.state = "waiting"
    /\ \E resp \in TokenResponses :
         /\ Issues(resp) => issued < MaxStoreGrants
         /\ peer' = [peer EXCEPT !.call.state = "answered",
                                 !.call.wire = resp]
         /\ issued' = IF Issues(resp) THEN issued + 1 ELSE issued
    /\ UNCHANGED <<tz, ws, rc, now, call, sinks, dl, runs, honest, run>>

\* The response reaches the second process (lines 265-304).
PeerTokenReceive ==
    /\ peer.pc = "tok"
    /\ peer.call.state = "answered"
    /\ LET r == HandleTokenResponse(peer.ws, rc, peer.call.wire, now)
       IN /\ rc' = r.rc
          /\ peer' = [peer EXCEPT !.ws = r.ws,
                                  !.call.state = "returned",
                                  !.call.resp = peer.call.wire.kind,
                                  !.call.saves = @ + r.saves,
                                  !.call.ret = r.ret,
                                  !.call.wire = NoResponse]
    /\ UNCHANGED <<tz, ws, now, issued, call, sinks, dl, runs, honest, run>>

NextStore ==
    \/ AccessTokenCall
    \/ TokenIssue
    \/ TokenReceive
    \/ PeerConstruct
    \/ PeerAccessTokenCall
    \/ PeerTokenIssue
    \/ PeerTokenReceive
    \/ Tick

SpecStore == InitStore /\ [][NextStore]_vars

\* ------------------------------------------------- claims: token lifecycle
ClientSet(w) == w.client_id # NoneStr /\ w.client_secret # NoneStr
Returned == call.state = "returned"

\* C1: with client id and secret set, a token cached and its expiry strictly
\* after the time of the read, the read sends no request, leaves the token
\* triple and the rc file as they were, and returns the cached token.
C1_FastPath ==
    (/\ call.state # "none"
     /\ ClientSet(call.ws0)
     /\ call.ws0.access_token # NoToken
     /\ call.ws0.expiration > call.t0)
    => /\ Returned
       /\ call.reqs = <<>>
       /\ call.saves = 0
       /\ ws = call.ws0
       /\ rc = call.rc0
       /\ call.ret = [kind |-> "token", token |-> call.ws0.access_token]

C1_Witness ==
    /\ Returned
    /\ ClientSet(call.ws0)
    /\ call.ws0.access_token # NoToken
    /\ call.ws0.expiration = call.t0 + 1
    /\ call.ret.kind = "token"

\* C2 as stated: a token cached with expiry <= now makes one read send
\* exactly one refresh request carrying the cached refresh token and, on
\* success, leaves the new token and expiry in the rc file at its return.
C2_AsClaimed ==
    (/\ Returned
     /\ call.ws0.access_token # NoToken
     /\ call.ws0.expiration # NoExpiry
     /\ call.ws0.expiration <= call.t0)
    => /\ Len(call.reqs) = 1
       /\ call.reqs[1].grant_type = "refresh_token"
       /\ call.reqs[1].refresh_token = call.ws0.refresh_token
       /\ call.resp = "ok" => rc.tokens = StoredTriple(ws)

\* C2 amended: with client id and secret set, a token cached with expiry <=
\* now makes one read send exactly one request, a refresh grant carrying the
\* cached refresh token; on success the object holds a new token, and when
\* the station has an rc file the new triple (expiry cut to whole seconds)
\* is in the file at the return, while without an rc file no file is written.
C2_RefreshOnce ==
    (/\ call.state # "none"
     /\ ClientSet(call.ws0)
     /\ call.ws0.access_token # NoToken
     /\ call.ws0.expiration # NoExpiry
     /\ call.ws0.expiration <= call.t0)
    => /\ Len(call.reqs) = 1
       /\ call.reqs[1].grant_type = "refresh_token"
       /\ call.reqs[1].refresh_token = call.ws0.refresh_token
       /\ (Returned /\ call.resp = "ok") =>
              /\ call.ret = [kind |-> "token", token |-> ws.access_token]
              /\ ws.access_token # call.ws0.access_token
              /\ call.saves = 1
              /\ ws.rc_file => rc.tokens = StoredTriple(ws)
              /\ ~ws.rc_file => rc = call.rc0

C2_Witness ==
    /\ Returned
    /\ ClientSet(call.ws0)
    /\ call.ws0.access_token # NoToken
    /\ call.ws0.expiration = call.t0
    /\ call.resp = "ok"
    /\ ws.rc_file
    /\ rc.tokens = StoredTriple(ws)

\* C3 as stated: after every successful grant the rc file holds the new
\* triple when the read returns, so that a new run loads the new token.
C3_AsClaimed ==
    (Returned /\ call.resp = "ok")
    => /\ rc.tokens.present
       /\ rc.tokens.access_token = call.ret.token

\* C3 amended: after every successful password or refresh grant of a station
\* that has an rc file, the file holds the new triple when the read returns:
\* a station constructed from that file right after the return holds the
\* returned access token, the new refresh token and the new expiry cut to
\* whole seconds, and not the superseded token. A station configured by a
\* dict has no store and nothing is written.
C3_SavedBeforeReturn ==
    (Returned /\ call.resp = "ok" /\ ws.rc_file)
    => LET next == NewStation("rc", NoneStr, NoneStr, NoneStr, NoneStr, rc)
       IN /\ call.ret.kind = "token"
          /\ next.access_token = call.ret.token
          /\ next.refresh_token = ws.refresh_token
          /\ next.expiration = ParseExpiration(FormatExpiration(ws.expiration))
          /\ next.access_token # call.ws0.access_token
          /\ call.rc0.tokens.present =>
                 next.access_token # call.rc0.tokens.access_token

C3_Witness ==
    /\ Returned
    /\ call.resp = "ok"
    /\ call.branch = "refresh"
    /\ ws.rc_file
    /\ call.rc0.tokens.present
    /\ NewStation("rc", NoneStr, NoneStr, NoneStr, NoneStr, rc).access_token
           = call.ret.token

\* C4: when the response to the token request of a read has an error field,
\* the read returns None, the token triple and the rc file are as at its
\* entry, save_tokens was not called and only that one request was sent.
C4_ErrorResponse ==
    (Returned /\ call.resp = "error")
    => /\ call.ret = RetNone
       /\ ws = call.ws0
       /\ rc = call.rc0
       /\ call.saves = 0
       /\ Len(call.reqs) = 1

C4_Witness ==
    /\ Returned
    /\ call.resp = "error"
    /\ call.branch = "refresh"
    /\ call.ws0.access_token # NoToken
    /\ call.rc0.tokens.present

\* C5: a read returns None, with no request sent and nothing changed, when
\* client id or client secret is None (whatever token is cached) and when no
\* token is cached and username or password is None.
C5_MissingCredentials ==
    (/\ call.state # "none"
     /\ \/ call.ws0.client_id = NoneStr
        \/ call.ws0.client_secret = NoneStr
        \/ /\ call.ws0.access_token = NoToken
           /\ call.ws0.username = NoneStr \/ call.ws0.password = NoneStr)
    => /\ Returned
       /\ call.ret = RetNone
       /\ call.reqs = <<>>
       /\ call.saves = 0
       /\ ws = call.ws0
       /\ rc = call.rc0

C5_Witness ==
    /\ Returned
    /\ call.ws0.client_id = NoneStr
    /\ call.ws0.access_token # NoToken
    /\ call.ws0.expiration <= call.t0
    /\ call.ret = RetNone

\* ------------------------------------------------ claims: synchronisation
RECURSIVE NonDecreasing(_)
NonDecreasing(ts) ==
    \/ Len(ts) <= 1
    \/ ts[1] <= ts[2] /\ NonDecreasing(Tail(ts))

NoDuplicates(ts) == \A i, j \in 1..Len(ts) : ts[i] = ts[j] => i = j

\* C6 as stated: when the file held data rows at the start of a dl_csv call,
\* the last of them with timestamp T, the first request of the call carries
\* date_begin = T + 1 and every request of the call a date_begin above T.
C6_AsClaimed ==
    Len(dl.rows0) > 0 =>
        LET T == dl.rows0[Len(dl.rows0)]
        IN /\ Len(dl.reqs) > 0 => dl.reqs[1].date_begin = T + 1
           /\ \A i \in 1..Len(dl.reqs) : dl.reqs[i].date_begin > T

\* C7 as stated: the rows written for one response body are in
\* non-decreasing order of their integer timestamp.
C7_AsClaimed ==
    (dl.resp.kind = "ok" /\ dl.resp.body # {}) => NonDecreasing(dl.page)

\* C8 as stated: the data rows of every file are non-decreasing by
\* timestamp, whatever the server returned.
C8_AsClaimed == \A f \in FileNames : NonDecreasing(sinks[f].rows)

\* C9 as stated, in the case most favourable to it, a server that never
\* returns a measurement older than the date_begin asked for: no timestamp
\* is in two data rows of a file.
C9_AsClaimed == honest => \A f \in FileNames : NoDuplicates(sinks[f].rows)

\* C10: a response with status ok and an empty body ends the call at once
\* and normally: no further request is sent, and the file gets nothing but
\* what had been written before the response.
C10_EmptyBodyEnds ==
    [][(/\ dl.pc = "measure_wait"
        /\ dl'.resp.kind = "ok"
        /\ dl'.resp.body = {})
       => /\ dl'.pc = "idle"
          /\ dl'.end = "exhausted"
          /\ dl'.reqs = dl.reqs
          /\ sinks'[dl.csv_file].rows = sinks[dl.csv_file].rows \o dl.bufrows
          /\ sinks'[dl.csv_file].bytes = sinks[dl.csv_file].bytes \o dl.buf
          /\ \A f \in FileNames \ {dl.csv_file} : sinks'[f] = sinks[f]]_vars

C10_Witness ==
    /\ dl.pc = "idle"
    /\ dl.end = "exhausted"
    /\ dl.resp.kind = "ok"
    /\ dl.resp.body = {}
    /\ Len(dl.reqs) = 2
    /\ Len(sinks[dl.csv_file].rows) = Len(dl.rows0) + 2

\* ---------------------------------------------------------- claims: fetch
\* The largest timestamp of a non-empty body.
Largest(body) == CHOOSE t \in body : \A u \in body : u <= t

\* The cursor a request was made for: its date_begin, or 0 when it has none.
CursorOf(req) == IF req.date_begin = NoDateBegin THEN 0 ELSE req.date_begin

C12_AsClaimed ==
    (/\ run.pc = "streams"
     /\ run.k > 0
     /\ call.state = "returned"
     /\ call.ret.kind \in {"None", "False"})
    => /\ dl.pc = "idle"
       /\ dl.end = "raised"
       /\ Len(dl.reqs) = dl.n - 1
       /\ FetchRaised

\* C13 as stated, for the stream in which the refresh failed and the streams
\* after it: when a refresh request gets an error before any measurement
\* request of the stream, the files of these streams are as they were before
\* the run.
C13_AsClaimed ==
    (/\ run.pc = "streams"
     /\ call.state = "returned"
     /\ call.branch = "refresh"
     /\ call.resp = "error"
     /\ dl.reqs = <<>>)
    => \A k \in run.k..Streams(run.devices) :
           sinks[StreamFile(k)] = run.sinks0[StreamFile(k)]

\* C17: when a non-empty page has been written and the cursor, the larger of
\* the cursor of the request and the largest timestamp of the page, is at or
\* above date_end, the call ends normally with no further request. date_end
\* is the time_utc the station directory gave for the stream, and the
\* directory does not change while the streams run.
C17_TargetEndsStream ==
    /\ [][(/\ dl.pc = "measure_wait"
           /\ dl'.resp.kind = "ok"
           /\ dl'.resp.body # {}
           /\ \/ Largest(dl'.resp.body) >= dl.date_end
              \/ CursorOf(dl.reqs[Len(dl.reqs)]) >= dl.date_end)
          => /\ dl'.pc = "idle"
             /\ dl'.end = "reached"
             /\ dl'.reqs = dl.reqs
             /\ Len(sinks'[dl.csv_file].rows) =
                    Len(sinks[dl.csv_file].rows) + Len(dl.bufrows)
                        + Cardinality(dl'.resp.body)]_vars
    /\ [][run.pc = "streams" => run'.devices = run.devices]_vars
    /\ [](dl.pc # "idle" => dl.date_end = StreamTarget(run.devices, run.k))

C17_Witness ==
    /\ dl.pc = "idle"
    /\ dl.end = "reached"
    /\ dl.resp.body = {FetchTs1, FetchTs2}
    /\ dl.date_end = TargetLow
    /\ Len(dl.reqs) = 1
    /\ sinks[dl.csv_file].rows = <<FetchTs1, FetchTs2>>

\* C18 as stated: the request that follows a non-empty page whose largest
\* timestamp is M carries date_begin = M + 1.
C18_AsClaimed ==
    [][(/\ dl.pc \in {"loop", "token_wait"}
        /\ dl'.pc = "measure_wait"
        /\ dl.resp.kind = "ok"
        /\ dl.resp.body # {})
       => dl'.reqs[Len(dl'.reqs)].date_begin = Largest(dl.resp.body) + 1]_vars

\* The request before a page, as far as the amended C18 needs it.
PageCursor == IF Len(dl.reqs) = 0 THEN 0 ELSE CursorOf(dl.reqs[Len(dl.reqs)])

\* The state of the example of C18: a file that did not exist, date_end
\* TargetHigh, and the first response carried FetchTs1 and FetchTs2.
C18_Example ==
    /\ dl.pc = "measure_wait"
    /\ Len(dl.reqs) = 2
    /\ ~run.sinks0[dl.csv_file].exists
    /\ dl.date_end = TargetHigh
    /\ dl.resp.kind = "ok"
    /\ dl.resp.body = {FetchTs1, FetchTs2}

\* C18 amended: the request that follows a non-empty page carries date_begin
\* = C + 1, where C is the larger of the page's largest timestamp M and the
\* cursor of the request that fetched the page (M when the page honoured its
\* date_begin). In the example the file gets the header, row FetchTs1 and row
\* FetchTs2, the second request carries date_begin = FetchTs2 + 1, and an
\* empty body in reply ends the call with no third request.
C18_NextCursor ==
    /\ [][(/\ dl.pc \in {"loop", "token_wait"}
           /\ dl'.pc = "measure_wait"
           /\ dl.resp.kind = "ok"
           /\ dl.resp.body # {})
          => LET M == Largest(dl.resp.body)
                 C == IF M > PageCursor THEN M ELSE PageCursor
             IN dl'.reqs[Len(dl'.reqs)].date_begin = C + 1]_vars
    /\ [](C18_Example =>
             /\ dl.reqs[1].date_begin = NoDateBegin
             /\ dl.reqs[2].date_begin = FetchTs2 + 1
             /\ dl.buf = HeaderRecordOf(StreamFields(run.k))
                            \o DataRecord(FetchTs1, FALSE)
                            \o DataRecord(FetchTs2, FALSE))
    /\ [][(C18_Example /\ dl'.resp.kind = "ok" /\ dl'.resp.body = {})
          => /\ dl'.pc = "idle"
             /\ dl'.end = "exhausted"
             /\ dl'.reqs = dl.reqs
             /\ sinks'[dl.csv_file].rows = <<FetchTs1, FetchTs2>>
             /\ sinks'[dl.csv_file].bytes = dl.buf]_vars

C18_Witness ==
    /\ dl.pc = "idle"
    /\ dl.end = "exhausted"
    /\ ~run.sinks0[dl.csv_file].exists
    /\ dl.date_end = TargetHigh
    /\ Len(dl.reqs) = 2
    /\ dl.reqs[2].date_begin = FetchTs2 + 1
    /\ sinks[dl.csv_file].rows = <<FetchTs1, FetchTs2>>

\* ------------------------------------------------- claims: last_timestamp
\* What follows the last newline of a text, or the whole text: the line the
\* text ends in when it does not end in a newline.
OpenLine(text) ==
    LET breaks == {i \in 1..Len(text) : text[i] = "\n"}
        from == IF breaks = {} THEN 1
                ELSE (CHOOSE i \in breaks : \A j \in breaks : j <= i) + 1
    IN SubSeq(text, from, Len(text))

\* The text ends in a line whose leading field is not complete: the line has
\* no ';' yet.
EndsInsideLeadingField(text) ==
    /\ Len(OpenLine(text)) > 0
    /\ \A i \in 1..Len(OpenLine(text)) : OpenLine(text)[i] # ";"

\* C14 as stated: dl_csv, which starts with last_timestamp(csv_file), gets 0
\* from it (and so starts from cursor 0) for a file that does not exist or is
\* empty, and for a file that ends in a line cut before the first ';'.
C14_AsClaimed ==
    (/\ dl.pc = "loop"
     /\ dl.n = 0
     /\ \/ Len(sinks[dl.csv_file].bytes) = 0
        \/ EndsInsideLeadingField(sinks[dl.csv_file].bytes))
    => /\ last_timestamp(sinks[dl.csv_file]) = 0
       /\ dl.start = 0

\* C15 as stated: a non-zero result of last_timestamp is the timestamp of
\* the last data record of the file.
C15_AsClaimed ==
    \A f \in FileNames :
        LET t == last_timestamp(sinks[f])
        IN t # 0 => /\ Len(sinks[f].rows) > 0
                    /\ t = sinks[f].rows[Len(sinks[f].rows)]

\* C16 as stated: whenever a call can be terminated, what is on disk ends in
\* a newline (or is empty) and last_timestamp of it is the timestamp of the
\* last row appended, or 0 when the file holds no row.
C16_AsClaimed ==
    \A f \in FileNames :
        /\ Len(sinks[f].bytes) > 0 =>
               sinks[f].bytes[Len(sinks[f].bytes)] = "\n"
        /\ last_timestamp(sinks[f]) =
               IF Len(sinks[f].rows) = 0 THEN 0
               ELSE sinks[f].rows[Len(sinks[f].rows)]

\* ------------------------------------------------- claims: pagination
\* C19: whatever the server returns, the date_begin values of the requests
\* of one dl_csv call are strictly increasing (a request without date_begin
\* counting as below all), the cursor stays at or below date_end from the
\* second request on, so that a call makes at most 1 + (date_end - first
\* cursor) requests, and every call that is not interrupted ends.
C19_CursorAdvances ==
    /\ [](\A i, j \in 1..Len(dl.reqs) :
             i < j => dl.reqs[i].date_begin < dl.reqs[j].date_begin)
    /\ [](\A i \in 2..Len(dl.reqs) : CursorOf(dl.reqs[i]) <= dl.date_end)
    /\ [](Len(dl.reqs) > 1 =>
             Len(dl.reqs) <= 1 + dl.date_end - CursorOf(dl.reqs[1]))
    /\ (dl.pc # "idle") ~> (dl.pc = "idle")

C19_Witness ==
    /\ dl.pc = "idle"
    /\ dl.end = "reached"
    /\ ~honest
    /\ Len(dl.reqs) = 2
    /\ dl.reqs[1].date_begin = FirstTs + 1
    /\ dl.reqs[2].date_begin = FirstTs + 2
    /\ dl.resp.body = {FirstTs}
    /\ sinks[dl.csv_file].rows = <<FirstTs, FirstTs, FirstTs>>

\* ------------------------------------------------- claims: two processes
\* Both processes have ended a call on the same file that made one request,
\* wrote one page and reached its date_end, and both calls found the same
\* data rows in the file when they opened it.
BothEnded ==
    /\ dl.pc = "idle"
    /\ peer.dl.pc = "idle"
    /\ dl.end = "reached"
    /\ peer.dl.end = "reached"
    /\ Len(dl.reqs) = 1
    /\ Len(peer.dl.reqs) = 1
    /\ dl.csv_file = peer.dl.csv_file
    /\ dl.rows0 = peer.dl.rows0

\* C20: no lock keeps the second process from opening a file the first has
\* open. When both calls took their cursor from the same content of the
\* file, their first requests carry the same date_begin, and at the end the
\* file holds the rows it held followed by the whole page of one call and
\* then the whole page of the other: a timestamp both pages hold is stored
\* twice.
C20_NoLock ==
    /\ dl.pc # "idle" => dl.csv_file \in PeerOpenable
    /\ BothEnded =>
          LET A == PageRows(dl.resp.body)
              B == PageRows(peer.dl.resp.body)
              rows == sinks[dl.csv_file].rows
          IN /\ dl.reqs[1].date_begin = peer.dl.reqs[1].date_begin
             /\ rows \in {dl.rows0 \o A \o B, dl.rows0 \o B \o A}
             /\ dl.resp.body \cap peer.dl.resp.body # {}
                    => ~NoDuplicates(rows)

C20_Witness ==
    /\ BothEnded
    /\ dl.rows0 = <<FirstTs>>
    /\ dl.reqs[1].date_begin = FirstTs + 1
    /\ peer.dl.reqs[1].date_begin = FirstTs + 1
    /\ dl.resp.body = {LastTs}
    /\ peer.dl.resp.body = {LastTs}
    /\ sinks[dl.csv_file].rows = <<FirstTs, LastTs, LastTs>>

\* ------------------------------------------------- claims: token store
\* The expiry cut to whole seconds, in ticks.
WholeSeconds(ticks) == (ticks \div Resolution) * Resolution

\* C28 as stated: right after a successful grant of a station with an rc
\* file, a station constructed from that file holds the access token and
\* the refresh token of the grant and the expiry of the grant cut to whole
\* seconds, and a read of its access_token at any time before that expiry
\* sends no request.
C28_AsClaimed ==
    (Returned /\ call.resp = "ok" /\ ws.rc_file)
    => LET next == NewStation("rc", NoneStr, NoneStr, NoneStr, NoneStr, rc)
       IN /\ next.access_token = ws.access_token
          /\ next.refresh_token = ws.refresh_token
          /\ next.expiration = WholeSeconds(ws.expiration)
          /\ \A t \in now..(WholeSeconds(ws.expiration) - 1) :
                 Branch(next, t) \notin {"password", "refresh"}

\* C22 as stated: whenever the object caches an access token it holds an
\* expiry as well.
C22_AsClaimed == ws.access_token # NoToken => ws.expiration # NoExpiry

\* The triple of an object that was given no token yet.
BlankTriple == <<NoToken, NoToken, NoExpiry>>

\* The triple t is whole: its access token and refresh token are those of
\* one token response, and it has an expiry.
WholeTriple(t) ==
    /\ \E g \in 1..MaxGrants : t[1] = AT(g) /\ t[2] = RT(g)
    /\ t[3] # NoExpiry

\* C23 as stated: a step that changes any field of the triple leaves the
\* whole triple of one token response or of the stored record (or the blank
\* triple of a newly constructed object).
C23_AsClaimed ==
    [][Triple(ws') # Triple(ws)
       => \/ Triple(ws') = BlankTriple
          \/ WholeTriple(Triple(ws'))]_vars

\* ------------------------------------------------- claims: two processes, one store
\* A read of the record c is in progress.
Pending(c) == c.state \in {"waiting", "answered"}

\* C21: nothing protects the token store. While the refresh request of one
\* process is pending, a read by the other process, whose station holds the
\* same expired triple, takes the refresh branch with the same refresh token;
\* and a process that receives a successful response puts its own triple in
\* the store whatever the store holds, also the triple of a later grant. So
\* the store can end with the triple of the grant that was superseded.
C21_NoStoreLock ==
    /\ []((/\ Pending(call)
           /\ call.branch = "refresh"
           /\ peer.pc = "tok"
           /\ ~Pending(peer.call)
           /\ Triple(peer.ws) = Triple(call.ws0)
           /\ peer.ws.expiration <= now)
          => /\ Branch(peer.ws, now) = "refresh"
             /\ TokenRequest(peer.ws, "refresh").refresh_token
                    = call.reqs[1].refresh_token)
    /\ [][(call.state = "answered" /\ call.wire.kind = "ok"
               /\ call'.state = "returned")
          => rc'.tokens = StoredTriple(ws')]_vars
    /\ [][(peer.pc = "tok" /\ peer.call.state = "answered"
               /\ peer.call.wire.kind = "ok"
               /\ peer'.call.state = "returned")
          => rc'.tokens = StoredTriple(peer'.ws)]_vars

\* Both processes sent a refresh request with the same refresh token, both
\* got a new triple, the first process the earlier one, and the store holds
\* the triple of the first process.
C21_Witness ==
    /\ call.state = "returned"
    /\ peer.pc = "tok"
    /\ peer.call.state = "returned"
    /\ call.branch = "refresh"
    /\ peer.call.branch = "refresh"
    /\ call.reqs[1].refresh_token = peer.call.reqs[1].refresh_token
    /\ call.resp = "ok"
    /\ peer.call.resp = "ok"
    /\ ws.access_token < peer.ws.access_token
    /\ rc.tokens = StoredTriple(ws)

\* ------------------------------------------------- claims: the sink files
\* a is a prefix of b.
IsPrefix(a, b) == Len(a) <= Len(b) /\ SubSeq(b, 1, Len(a)) = a

\* C24: every step of either process leaves every file that exists in
\* existence, with the bytes (and data rows) it held as a prefix of the
\* bytes (and data rows) it holds afterwards.
C24_AppendOnly ==
    [][\A f \in DOMAIN sinks :
           /\ sinks[f].exists => sinks'[f].exists
           /\ IsPrefix(sinks[f].bytes, sinks'[f].bytes)
           /\ IsPrefix(sinks[f].rows, sinks'[f].rows)]_vars

\* Both processes have appended a page to the file an earlier call left.
C24_Witness ==
    /\ dl.pc = "idle"
    /\ peer.dl.pc = "idle"
    /\ Len(dl.page) = 1
    /\ Len(peer.dl.page) = 1
    /\ \E f \in DOMAIN sinks :
           sinks[f].bytes = StoredFile.bytes \o DataRecord(LastTs, FALSE)
                                \o DataRecord(FirstTs, FALSE)

\* What file f holds once the records the running call has buffered are
\* written out.
Flushed(f) ==
    sinks[f].bytes \o (IF dl.csv_file = f /\ dl.pc # "idle" THEN dl.buf
                       ELSE <<>>)

\* The positions of text at which the header record starts.
HeaderPositions(text) ==
    {i \in 1..(Len(text) - Len(HeaderRecord) + 1) :
        SubSeq(text, i, i + Len(HeaderRecord) - 1) = HeaderRecord}

\* C25: over any sequence of dl_csv calls on files that were absent or empty
\* at first, a file that holds anything starts with the header record and
\* holds it nowhere else, and a call puts the header record in front of what
\* it writes exactly when the file it opens is empty.
C25_HeaderOnce ==
    /\ [](\A f \in FileNames :
             Len(Flushed(f)) > 0 => HeaderPositions(Flushed(f)) = {1})
    /\ [][dl.pc = "idle" /\ dl'.pc = "loop"
            => dl'.buf = (IF Len(sinks[dl'.csv_file].bytes) = 0
                          THEN HeaderRecord ELSE <<>>)]_vars

\* A second call has appended a row to a file that the first call left with
\* the header and a row.
C25_Witness ==
    /\ runs = 2
    /\ dl.pc = "idle"
    /\ Len(dl.rows0) = 1
    /\ sinks[dl.csv_file].bytes =
           HeaderRecord \o DataRecord(FirstTs, FALSE)
               \o DataRecord(LastTs, FALSE)

\* C27: every measurement request the loop of dl_csv sends carries scale
\* "max" and a date_begin equal to the cursor of that iteration, the cursor 0
\* of an empty or absent file included.
C27_AsClaimed ==
    [][Len(dl'.reqs) = Len(dl.reqs) + 1
         => /\ dl'.reqs[Len(dl'.reqs)].scale = "max"
            /\ dl'.reqs[Len(dl'.reqs)].date_begin = dl.start]_vars

\* ------------------------------------------------- claims: one read of the token
\* C29: one read sends at most one token request; the request is a password
\* grant exactly when no access token was cached at the entry of the read and
\* a refresh grant exactly when one was cached and had expired; and a read
\* whose refresh did not give a token leaves the expired access token cached.
C29_AsClaimed ==
    call.state # "none"
    => /\ Len(call.reqs) <= 1
       /\ Len(call.reqs) = 1 =>
              /\ call.reqs[1].grant_type = "password"
                     <=> call.ws0.access_token = NoToken
              /\ call.reqs[1].grant_type = "refresh_token"
                     <=> /\ call.ws0.access_token # NoToken
                         /\ call.ws0.expiration # NoExpiry
                         /\ call.ws0.expiration <= call.t0
       /\ (Returned /\ call.branch = "refresh" /\ call.ret.kind # "token")
              => ws.access_token = call.ws0.access_token

\* ------------------------------------------------- claims: the token of a request
\* The step ends a token read that gave tok, an access token the station
\* holds with an expiry after the time the read began.
TokenChecked(tok) ==
    /\ call'.state = "returned"
    /\ call'.ret = tok
    /\ tok.kind = "token"
    /\ tok.token = ws'.access_token
    /\ ws'.expiration > call'.t0

\* C30: every step that sends a measurement request or the station-directory
\* request ends a token read of the same call, and the request carries the
\* access token that read gave, whose expiry is strictly after the time of
\* the read; a read that gave no token sends no request.
C30_AsClaimed ==
    [][/\ Len(dl'.reqs) = Len(dl.reqs) + 1
            => TokenChecked(dl'.reqs[Len(dl'.reqs)].access_token)
       /\ (run'.pc = "data_wait" /\ run.pc # "data_wait")
            => TokenChecked(run'.data_token)]_vars

\* ------------------------------------------------- claims: the streams of fetch
\* C26 as stated: fetch starts one dl_csv call for the station and then one
\* for every module, in that order and one at a time, every measurement
\* request being sent by the call that is running.
C26_AsClaimed ==
    /\ [][run'.k # run.k
            => /\ run'.k = run.k + 1
               /\ run.pc = "streams"
               /\ dl.pc = "idle"
               /\ run'.k <= 1 + Len(run.devices.modules)
               /\ run'.reqs = run.reqs \o dl.reqs
               /\ dl'.csv_file = StreamFile(run'.k)
               /\ dl'.reqs = <<>>]_vars
    /\ [][Len(dl'.reqs) = Len(dl.reqs) + 1
            => /\ run'.k = run.k
               /\ run.k >= 1
               /\ dl'.csv_file = StreamFile(run.k)
               /\ dl'.date_end = StreamTarget(run.devices, run.k)]_vars
    /\ []((FetchReturned /\ run.pc = "streams")
            => /\ run.k = 1 + Len(run.devices.modules)
               /\ \A k \in 1..(1 + Len(run.devices.modules)) :
                      sinks[StreamFile(k)].exists)

\* Stream k of the directory has a time_utc.
Reports(devices, k) == StreamTarget(devices, k) # NoDashboard

\* C26 amended: fetch takes the station and then its modules 0, 1, ... one at
\* a time and in that order, and starts a dl_csv call for each of them that
\* reports a time_utc: the next one is taken only when the call before it is
\* over, every measurement request is sent by the call that is running, for
\* the file and date_end of its stream, and a fetch call that returns after
\* get_data succeeded has taken the station and every module, the files of
\* those that report a time_utc exist.
C26_StreamsInOrder ==
    /\ [][run'.k # run.k
            => /\ run'.k = run.k + 1
               /\ run.pc = "streams"
               /\ dl.pc = "idle"
               /\ run'.k <= 1 + Len(run.devices.modules)
               /\ run'.reqs = run.reqs \o dl.reqs
               /\ dl'.reqs = <<>>
               /\ IF Reports(run.devices, run'.k)
                  THEN dl'.pc = "loop" /\ dl'.csv_file = StreamFile(run'.k)
                  ELSE dl'.pc = "idle" /\ sinks' = sinks]_vars
    /\ [][Len(dl'.reqs) = Len(dl.reqs) + 1
            => /\ run'.k = run.k
               /\ run.k >= 1
               /\ Reports(run.devices, run.k)
               /\ dl'.csv_file = StreamFile(run.k)
               /\ dl'.date_end = StreamTarget(run.devices, run.k)]_vars
    /\ []((FetchReturned /\ run.pc = "streams")
            => /\ run.k = 1 + Len(run.devices.modules)
               /\ \A k \in 1..(1 + Len(run.devices.modules)) :
                      Reports(run.devices, k) => sinks[StreamFile(k)].exists)

\* fetch has returned for a station with two modules after two requests for
\* the station and at least one for each module.
C26_Witness ==
    /\ FetchReturned
    /\ run.pc = "streams"
    /\ Len(run.devices.modules) = 2
    /\ run.k = 3
    /\ Len(run.reqs) >= 3
    /\ Len(dl.reqs) >= 1
    /\ \A k \in 1..3 : Len(sinks[StreamFile(k)].rows) >= 1

\* get_data has stored a station directory.
HasDirectory == DOMAIN run.devices = {"time_utc", "modules"}

\* C35: when the station of the directory has no module, fetch is left by an
\* exception before its first dl_csv call: no stream is started, no
\* measurement request is sent and no file, the station's included, is
\* created or written.
C35_NoModuleNoStream ==
    (HasDirectory /\ Len(run.devices.modules) = 0)
    => /\ run.pc = "raised"
       /\ FetchRaised
       /\ run.k = 0
       /\ dl = IdleDl
       /\ run.reqs = <<>>
       /\ sinks = run.sinks0
       /\ \A f \in FetchFiles : ~sinks[f].exists

C35_Witness ==
    /\ run.pc = "raised"
    /\ HasDirectory
    /\ Len(run.devices.modules) = 0
    /\ run.devices.time_utc = TargetHigh
    /\ run.data_token.kind = "token"

\* C36: a module that reports no time_utc is passed over: taking it starts
\* no dl_csv call, sends no request and leaves every file as it is; its file
\* stays as it was before the run; and fetch goes on with the module after
\* it, so that a run that returns has opened the files of exactly the
\* modules that report a time_utc.
C36_ModuleSkipped ==
    /\ [][(run'.k = run.k + 1 /\ run'.k > 1 /\ ~Reports(run.devices, run'.k))
            => /\ sinks' = sinks
               /\ dl'.pc = "idle"
               /\ dl'.reqs = <<>>
               /\ run'.pc = "streams"]_vars
    /\ []((run.pc = "streams" /\ run.k > 1 /\ ~Reports(run.devices, run.k))
            => /\ dl.pc = "idle"
               /\ dl.reqs = <<>>
               /\ run.k < 1 + Len(run.devices.modules) => NextStreamDue)
    /\ [](run.pc = "streams"
            => \A k \in 2..(1 + Len(run.devices.modules)) :
                  ~Reports(run.devices, k)
                      => sinks[StreamFile(k)] = run.sinks0[StreamFile(k)])
    /\ []((FetchReturned /\ run.pc = "streams")
            => \A k \in 2..(1 + Len(run.devices.modules)) :
                  sinks[StreamFile(k)].exists <=> Reports(run.devices, k))

\* fetch has returned for a station whose first module reports no time_utc:
\* the file of that module does not exist, the files of the station and of
\* the second module hold rows.
C36_Witness ==
    /\ FetchReturned
    /\ run.pc = "streams"
    /\ Len(run.devices.modules) = 2
    /\ ~Reports(run.devices, 2)
    /\ ~sinks[StreamFile(2)].exists
    /\ Len(sinks[StreamFile(1)].rows) >= 1
    /\ Len(sinks[StreamFile(3)].rows) >= 1

\* ------------------------------------------------- claims: credentials
\* A read that began with no access token cached: it sends no refresh
\* request, at most one password-grant request with the credentials the
\* station held, and a token it returns is the access token of the grant
\* the server issued for that request.
ReadWithoutToken ==
    (call.state # "none" /\ call.ws0.access_token = NoToken)
    => /\ call.branch \in {"no_client", "no_user", "password"}
       /\ Len(call.reqs) <= 1
       /\ Len(call.reqs) = 1 =>
              /\ call.reqs[1].grant_type = "password"
              /\ call.reqs[1].username = call.ws0.username
              /\ call.reqs[1].password = call.ws0.password
       /\ (Returned /\ call.ret.kind = "token") =>
              /\ Len(call.reqs) = 1
              /\ call.resp = "ok"
              /\ call.ret.token = AT(issued)
              /\ call.ret.token # call.ws0.refresh_token - 1

\* C33 as stated: every auth step and every load_credentials step leaves no
\* access token cached, and the read that follows returns no token but that
\* of a new password grant.
C33_AsClaimed ==
    /\ [][(Auth \/ LoadCredentials) => ws'.access_token = NoToken]_vars
    /\ []ReadWithoutToken

\* C33 amended: every auth step, and every load_credentials step of a
\* station that has an rc file, leaves no access token cached (the refresh
\* token and the expiry stay); load_credentials of a station configured by a
\* dict changes nothing; and a read that begins with no access token cached
\* returns no token but that of a new password grant.
C33_AuthDiscardsToken ==
    /\ [][Auth => /\ ws'.access_token = NoToken
                  /\ ws'.refresh_token = ws.refresh_token
                  /\ ws'.expiration = ws.expiration]_vars
    /\ [][(LoadCredentials /\ ws.rc_file) => ws'.access_token = NoToken]_vars
    /\ [][(LoadCredentials /\ ~ws.rc_file) => ws' = ws]_vars
    /\ []ReadWithoutToken

\* A station that had the tokens of the first grant and lost the access
\* token to auth or load_credentials has read the token of the second grant.
C33_Witness ==
    /\ Returned
    /\ call.ws0.access_token = NoToken
    /\ call.ws0.refresh_token = RT(1)
    /\ call.ret = RetToken(AT(2))
    /\ ws.access_token = AT(2)

\* ------------------------------------------------- claims: the two writers
\* C34 as stated: a save_tokens call puts the object's triple in the tokens
\* section and leaves the account section as it is; a save_credentials call
\* puts the object's credentials in the account section and removes the
\* tokens section, so that a station constructed from the file afterwards
\* holds no token.
C34_AsClaimed ==
    /\ [][call'.saves = call.saves + 1
            => /\ rc'.tokens = StoredTriple(ws')
               /\ rc'.account = rc.account]_vars
    /\ [][SaveCredentials
            => /\ rc'.account = StoredAccount(ws)
               /\ rc'.tokens = NoSection
               /\ NewStation("rc", NoneStr, NoneStr, NoneStr, NoneStr,
                             rc').access_token = NoToken]_vars

\* C34 amended: for a station that has an rc file, a save_tokens call puts
\* the object's triple in the tokens section and leaves the account section
\* as it is, and a save_credentials call puts the object's credentials in
\* the account section and removes the tokens section, so that a station
\* constructed from the file afterwards holds no token; for a station
\* configured by a dict both calls leave the file as it is.
C34_DisjointWriters ==
    /\ [][call'.saves = call.saves + 1
            => IF ws'.rc_file
               THEN /\ rc'.tokens = StoredTriple(ws')
                    /\ rc'.account = rc.account
               ELSE rc' = rc]_vars
    /\ [][SaveCredentials
            => IF ws.rc_file
               THEN /\ rc'.account = StoredAccount(ws)
                    /\ rc'.tokens = NoSection
                    /\ NewStation("rc", NoneStr, NoneStr, NoneStr, NoneStr,
                                  rc').access_token = NoToken
               ELSE rc' = rc]_vars

\* save_credentials has removed the tokens section that the grant of the
\* station, which still holds the token, had been saved in.
C34_Witness ==
    /\ ws.rc_file
    /\ ws.access_token = AT(1)
    /\ ws.refresh_token = RT(1)
    /\ ws.expiration # NoExpiry
    /\ issued = 1
    /\ call = NoCall
    /\ rc.account = StoredAccount(ws)
    /\ rc.tokens = NoSection

Resumed == dl.pc = "idle" /\ dl.resumes /\ EndedWell(dl)

\* C32: resuming is idempotent: when a run ended successfully on a stream
\* and the remote data did not change, a second run on the same file sends
\* exactly one measurement request, whose date_begin is the last stored
\* timestamp plus one, and leaves the file byte for byte as it was.
C32_AsClaimed ==
    /\ [](Resumed =>
            /\ Len(dl.reqs) = 1
            /\ dl.rows0 # <<>> =>
                   dl.reqs[1].date_begin = dl.rows0[Len(dl.rows0)] + 1)
    /\ [][(dl.pc # "idle" /\ Resumed') => sinks' = sinks]_vars

\* ------------------------------------------------ claims: expiry in a run
\* The date_begin values of a sequence of measurement requests.
DateBegins(reqs) == [i \in 1..Len(reqs) |-> reqs[i].date_begin]

\* The loop of dl_csv run from d to its end with a token that does not
\* expire, every request answered with the whole of the remote data in rows
\* of the given width.
RECURSIVE NoExpiryRun(_, _, _)
NoExpiryRun(d, token, wide) ==
    IF d.pc # "loop" THEN d
    ELSE LET sent == AfterToken([d EXCEPT !.n = @ + 1], token)
             body == Remote(sent.reqs[Len(sent.reqs)])
             resp == [kind |-> "ok", body |-> body,
                      wide |-> (wide /\ body # {})]
         IN NoExpiryRun(HandleMeasures([sent EXCEPT !.resp = resp],
                                       "ok", body, resp.wide),
                        token, wide)

\* dl_csv as it enters its loop on a file that does not exist.
FirstOpen(f, target) ==
    [IdleDl EXCEPT !.pc = "loop", !.csv_file = f,
                   !.start = StartOf(NoFile), !.date_end = target,
                   !.buf = HeaderOf(NoFile)]

\* The token read of the iteration at hand, not the first one of its call,
\* found the token expired and was granted a refresh.
RefreshedBetweenPages ==
    /\ dl.n >= 2
    /\ call.branch = "refresh"
    /\ call.state = "returned"
    /\ call.ret.kind = "token"

\* C31: a token expiry between two pages of a stream is transparent: the
\* read sends exactly one token request, a refresh grant, and once it is
\* granted the loop goes on from where it was (same cursor, same rows
\* waiting, same file, the next request carrying the date_begin it would
\* have carried); the run as a whole sends the same date_begin values and
\* leaves the same file as the run in which the token never expires.
C31_ExpiryTransparent ==
    /\ [][(TokenReplySync /\ dl.n >= 2 /\ call.branch = "refresh"
              /\ call'.ret.kind = "token")
           => /\ Len(call'.reqs) = 1
              /\ call'.reqs[1].grant_type = "refresh_token"
              /\ call'.resp = "ok"
              /\ dl' = [dl EXCEPT
                           !.pc = "measure_wait",
                           !.reqs = Append(@, MeasureRequest(
                                                  RetToken(ws'.access_token),
                                                  dl.start))]
              /\ sinks' = sinks]_vars
    /\ []((runs = 1 /\ dl.pc = "idle" /\ EndedWell(dl)
              /\ RefreshedBetweenPages)
           => \E wide \in BOOLEAN :
                  LET ref == NoExpiryRun(FirstOpen(dl.csv_file, dl.date_end),
                                         RetToken(1), wide)
                  IN /\ DateBegins(dl.reqs) = DateBegins(ref.reqs)
                     /\ dl.end = ref.end
                     /\ sinks[dl.csv_file].rows = ref.bufrows
                     /\ sinks[dl.csv_file].bytes = ref.buf)

\* A first run on an absent file has ended at the empty page; its second
\* token read found the token expired and was granted a refresh, and the
\* server answered both measurement requests with the whole remote data.
C31_Witness ==
    /\ runs = 1
    /\ dl.pc = "idle"
    /\ EndedWell(dl)
    /\ RefreshedBetweenPages
    /\ Len(dl.reqs) = 2
    /\ sinks[dl.csv_file].rows # <<>>

====
